---- MODULE Spec2Model ----
(***************************************************************************)
(* F1 Safety Rate Tracker: the session-lifecycle detector (SessionManager), *)
(* the rating engine (SREngine) and the receive loop that wires them        *)
(* (F1SafetyRateTracker), as state machines.                               *)
(***************************************************************************)
EXTENDS Integers, Sequences, FiniteSets, TLC

VARIABLES
    sm,         \* the SessionManager object's fields
    eng,        \* the SREngine object's fields
    adapter,    \* the F12019Adapter object's fields
    db,         \* the Database: profile rating and sessions table
    app,        \* the F1SafetyRateTracker object's own fields
    rd,         \* a reader thread inside SREngine.get_stats: its position
                \* and the statistics it has read so far
    now,        \* wall clock: receipt timestamp of the last snapshot
    calls,      \* callbacks invoked by the last operation, in order
    op,         \* the last operation and the snapshot it was given
    steps,      \* number of snapshots the engine has processed
    trace,      \* history: what the last pass of the receive loop did
    before,     \* history: the tracker's fields before the last operation
    lastStarted,\* history: session id given to the most recent start callback
    notified,   \* history: which callbacks were invoked since the most recent
                \* start callback, that one first, and how many more start than
                \* end callbacks there have been (counted up to a cap)
    pauseRun,   \* history: receipt timestamp of the first snapshot of the
                \* current run of paused snapshots received while Active
    offHistory, \* history: is_off_track of the snapshots the engine has
                \* processed since the last session reset, in order
    prevDamage, \* history: the damage vector the engine held before the
                \* last snapshot of the damage-detection specification
    pushed,     \* history: the accumulator totals the corner completions
                \* have pushed into the window so far, in completion order
    pure        \* a call of a function that reads or computes without
                \* changing the engine: its name, arguments and result

trackerVars == <<sm, now, lastStarted, notified, pauseRun>>
engineVars == <<eng, steps, offHistory, prevDamage, pushed>>
appVars == <<adapter, db, app, trace>>
vars == <<sm, eng, adapter, db, app, rd, now, calls, op, steps, trace, before,
          lastStarted, notified, pauseRun, offHistory, prevDamage, pushed,
          pure>>

----------------------------------------------------------------------------
(* Optional values: Python's None and a present value.                     *)
None == <<>>
Some(v) == <<v>>
Val(o) == o[1]

(* str(race_state.session_uid): the decimal text of the id, kept apart     *)
(* from the integer it was made from.                                      *)
Str(n) == <<"str", n>>

----------------------------------------------------------------------------
(* SessionManager configuration                                            *)
RACE_SESSION_TYPE == 10
PAUSE_THRESHOLD == 30
MIN_RACE_DURATION == 60

(* SessionState members the tracker uses                                   *)
IDLE == "idle"
RACE_STARTING == "race_starting"
RACE_ACTIVE == "race_active"

(* Input domains of the snapshots fed to the tracker                       *)
SessionUids == {1, 2}
SessionTypes == {RACE_SESSION_TYPE, 0}
SessionTimes == {0, 1, 60, 61}
TrackIds == {3, 7}
Timestamps == {0, 30, 31, 62}

RaceState(uid, type, time, paused, track, lap, off, fl, fr, rl, rr, ts) ==
    [session_uid |-> uid, session_type |-> type, session_time |-> time,
     game_paused |-> paused, track_id |-> track, current_lap |-> lap,
     is_off_track |-> off, front_left_damage |-> fl,
     front_right_damage |-> fr, rear_left_damage |-> rl,
     rear_right_damage |-> rr, timestamp |-> ts]

NoSnapshot == RaceState(0, 0, 0, FALSE, 0, 0, FALSE, 0, 0, 0, 0, 0)

(* Snapshots the tracker is driven with: the lap and damage fields are not *)
(* read by the tracker.                                                    *)
TrackerSnapshots(from) ==
    { RaceState(u, ty, t, p, tr, 0, FALSE, 0, 0, 0, 0, ts) :
        u \in SessionUids, ty \in SessionTypes, t \in SessionTimes,
        p \in BOOLEAN, tr \in TrackIds,
        ts \in {x \in Timestamps : x >= from} }

----------------------------------------------------------------------------
(* SessionManager                                                          *)

SessionManager_init ==
    [current_state |-> IDLE, active_session_uid |-> None,
     active_track_id |-> None, last_session_type |-> None,
     race_start_time |-> None, pause_start_time |-> None]

StartCall(uid, track) == [cb |-> "on_race_start", uid |-> uid, track |-> track]
EndCall(uid) == [cb |-> "on_race_end", uid |-> uid, track |-> 0]

(* Variant: a session time of zero counts as started.                      *)
should_start_race_zero(m, session_type, session_time, session_uid) ==
    LET is_race_type == session_type = RACE_SESSION_TYPE
        has_started == session_time >= 0
        is_new_session == m.active_session_uid # session_uid
        is_not_racing == m.current_state \notin {RACE_ACTIVE, RACE_STARTING}
    IN  is_race_type /\ has_started /\ is_new_session /\ is_not_racing

should_start_race(m, session_type, session_time, session_uid) ==
    LET is_race_type == session_type = RACE_SESSION_TYPE
        has_started == session_time > 0
        is_new_session == m.active_session_uid # session_uid
        is_not_racing == m.current_state \notin {RACE_ACTIVE, RACE_STARTING}
    IN  is_race_type /\ has_started /\ is_new_session /\ is_not_racing

(* Variant: the session id comparison is left out.                         *)
should_end_race_no_uid(m, session_type, session_uid, is_paused, current_timestamp) ==
    IF m.current_state # RACE_ACTIVE THEN FALSE
    ELSE IF session_type # RACE_SESSION_TYPE
            /\ m.last_session_type = Some(RACE_SESSION_TYPE) THEN TRUE
    ELSE IF is_paused /\ m.pause_start_time # None
            /\ current_timestamp - Val(m.pause_start_time) > PAUSE_THRESHOLD
         THEN TRUE
    ELSE FALSE

should_end_race(m, session_type, session_uid, is_paused, current_timestamp) ==
    IF m.current_state # RACE_ACTIVE THEN FALSE
    ELSE IF session_type # RACE_SESSION_TYPE
            /\ m.last_session_type = Some(RACE_SESSION_TYPE) THEN TRUE
    ELSE IF session_uid # m.active_session_uid THEN TRUE
    ELSE IF is_paused /\ m.pause_start_time # None
            /\ current_timestamp - Val(m.pause_start_time) > PAUSE_THRESHOLD
         THEN TRUE
    ELSE FALSE

(* Variant: the track id of the ended session is left behind.              *)
reset_keep_track(m) ==
    [m EXCEPT !.current_state = IDLE, !.active_session_uid = None,
              !.race_start_time = None, !.pause_start_time = None]

reset(m) ==
    [m EXCEPT !.current_state = IDLE, !.active_session_uid = None,
              !.active_track_id = None, !.race_start_time = None,
              !.pause_start_time = None]

start_race(m, session_uid, track_id, session_time) ==
    [m |-> [m EXCEPT !.current_state = RACE_ACTIVE,
                     !.active_session_uid = session_uid,
                     !.active_track_id = Some(track_id),
                     !.race_start_time = Some(session_time),
                     !.pause_start_time = None],
     calls |-> <<StartCall(session_uid, track_id)>>]

(* Variant: a session of exactly the minimum duration is dropped too.      *)
end_race_inclusive(m, session_uid, session_time) ==
    IF m.race_start_time # None
       /\ session_time - Val(m.race_start_time) <= MIN_RACE_DURATION
    THEN [m |-> reset(m), calls |-> <<>>]
    ELSE [m |-> reset(m), calls |-> <<EndCall(session_uid)>>]

end_race(m, session_uid, session_time) ==
    IF m.race_start_time # None
       /\ session_time - Val(m.race_start_time) < MIN_RACE_DURATION
    THEN [m |-> reset(m), calls |-> <<>>]
    ELSE [m |-> reset(m), calls |-> <<EndCall(session_uid)>>]

(* Variant: every paused snapshot restarts the pause timestamp.            *)
track_pause_restart(m, rs) ==
    LET m1 == IF m.current_state = RACE_ACTIVE
              THEN IF rs.game_paused
                   THEN [m EXCEPT !.pause_start_time = Some(rs.timestamp)]
                   ELSE [m EXCEPT !.pause_start_time = None]
              ELSE m
    IN  [m1 EXCEPT !.last_session_type = Some(rs.session_type)]

(* Variant: an unpaused snapshot leaves the pause timestamp in place.      *)
track_pause_keep(m, rs) ==
    LET m1 == IF m.current_state = RACE_ACTIVE /\ rs.game_paused
                 /\ m.pause_start_time = None
              THEN [m EXCEPT !.pause_start_time = Some(rs.timestamp)]
              ELSE m
    IN  [m1 EXCEPT !.last_session_type = Some(rs.session_type)]

(* Pause bookkeeping and session-type tracking, the tail of                *)
(* process_telemetry.                                                      *)
track_pause(m, rs) ==
    LET m1 == IF m.current_state = RACE_ACTIVE
              THEN IF rs.game_paused
                   THEN IF m.pause_start_time = None
                        THEN [m EXCEPT !.pause_start_time = Some(rs.timestamp)]
                        ELSE m
                   ELSE [m EXCEPT !.pause_start_time = None]
              ELSE m
    IN  [m1 EXCEPT !.last_session_type = Some(rs.session_type)]

(* Variant: the start test is made again after a session was ended.        *)
process_telemetry_chained(m, rs) ==
    LET session_uid == Str(rs.session_uid)
        r == IF should_start_race(m, rs.session_type, rs.session_time,
                                  session_uid)
             THEN start_race(m, session_uid, rs.track_id, rs.session_time)
             ELSE IF should_end_race(m, rs.session_type, session_uid,
                                     rs.game_paused, rs.timestamp)
             THEN end_race(m, session_uid, rs.session_time)
             ELSE [m |-> m, calls |-> <<>>]
        r2 == IF m.current_state # RACE_ACTIVE
                 \/ ~should_start_race(r.m, rs.session_type, rs.session_time,
                                       session_uid)
              THEN r
              ELSE [m |-> start_race(r.m, session_uid, rs.track_id,
                                     rs.session_time).m,
                    calls |-> Append(r.calls,
                                     StartCall(session_uid, rs.track_id))]
    IN  [m |-> track_pause(r2.m, rs), calls |-> r2.calls]

process_telemetry(m, rs) ==
    LET session_uid == Str(rs.session_uid)
        r == IF should_start_race(m, rs.session_type, rs.session_time,
                                  session_uid)
             THEN start_race(m, session_uid, rs.track_id, rs.session_time)
             ELSE IF should_end_race(m, rs.session_type, session_uid,
                                     rs.game_paused, rs.timestamp)
             THEN end_race(m, session_uid, rs.session_time)
             ELSE [m |-> m, calls |-> <<>>]
    IN  [m |-> track_pause(r.m, rs), calls |-> r.calls]

(* Variant: the forced end goes through the duration check of end_race.    *)
force_end_current_session_checked(m) ==
    IF m.current_state = RACE_ACTIVE /\ m.active_session_uid # None
    THEN end_race(m, m.active_session_uid, 0)
    ELSE [m |-> m, calls |-> <<>>]

(* Variant: the forced end does not look at the tracker's state.           *)
force_end_current_session_unguarded(m) == [m |-> reset(m), calls |-> <<EndCall(m.active_session_uid)>>]

force_end_current_session(m) ==
    IF m.current_state = RACE_ACTIVE /\ m.active_session_uid # None
    THEN [m |-> reset(m), calls |-> <<EndCall(m.active_session_uid)>>]
    ELSE [m |-> m, calls |-> <<>>]

is_race_active(m) == m.current_state = RACE_ACTIVE

----------------------------------------------------------------------------
(* SREngine                                                                *)

(* Bounds of the engine model                                              *)
WindowSize == 2
MaxWindowWeight == 10
MaxSteps == 4

RECURSIVE Gcd(_, _)
Gcd(a, b) == IF b = 0 THEN a ELSE Gcd(b, a % b)

Lcm(a, b) == (a \div Gcd(a, b)) * b

RECURSIVE LcmUpTo(_)
LcmUpTo(n) == IF n <= 1 THEN 1 ELSE Lcm(LcmUpTo(n - 1), n)

(* Ratings are kept as exact fractions over one denominator: a rating r is *)
(* the integer r * SR_SCALE.  The denominator is a multiple of 100 and of    *)
(* every divisor the recomputation meets (30 * window weight * 20).        *)
SR_SCALE == 600 * LcmUpTo(MaxWindowWeight)

Hundredths(h) == h * (SR_SCALE \div 100)

BOUNDARY_BONUS == Hundredths(40)
MIN_SR == Hundredths(250)
MAX_SR == Hundredths(799)
INITIAL_SR == Hundredths(250)
DAMAGE_THRESHOLD == 5
TARGET_CPI == 30
PERFECT_CPI == 100

(* sr_multiplier as a fraction <<numerator, denominator>>: the default     *)
(* 0.05 and the 10.0 the application constructs the engine with.           *)
DEFAULT_SR_MULTIPLIER == <<1, 20>>
APP_SR_MULTIPLIER == <<10, 1>>

IncidentTypes == {"1x", "2x", "4x"}

Max(a, b) == IF a >= b THEN a ELSE b
Min(a, b) == IF a <= b THEN a ELSE b

RECURSIVE Sum(_)
Sum(q) == IF q = <<>> THEN 0 ELSE Head(q) + Sum(Tail(q))

SREngine_init(window_size, sr_multiplier) ==
    [window_size |-> window_size,
     sr_multiplier |-> sr_multiplier,
     corner_incidents |-> <<>>,
     current_sr |-> INITIAL_SR,
     last_sr |-> INITIAL_SR,
     last_lap_number |-> 0,
     last_off_track_state |-> FALSE,
     last_damage_values |-> [front_left |-> 0, front_right |-> 0,
                             rear_left |-> 0, rear_right |-> 0],
     session_incidents |-> [k \in IncidentTypes |-> 0],
     corners_completed |-> 0,
     current_corner_incidents |-> 0]

(* Variant: a full window refuses the new entry instead of evicting the    *)
(* oldest one.                                                             *)
deque_append_keep_oldest(q, maxlen, x) ==
    IF Len(q) >= maxlen THEN q ELSE Append(q, x)

(* deque(maxlen=window_size).append                                        *)
deque_append(q, maxlen, x) ==
    IF maxlen = 0 THEN <<>>
    ELSE IF Len(q) >= maxlen THEN Append(Tail(q), x)
    ELSE Append(q, x)

complete_corner(e) ==
    [e EXCEPT !.corner_incidents =
                  deque_append(@, e.window_size, e.current_corner_incidents),
              !.corners_completed = @ + 1,
              !.current_corner_incidents = 0]

(* int(incident_type[0])                                                   *)
incident_value(incident_type) ==
    CASE incident_type = "1x" -> 1
      [] incident_type = "2x" -> 2
      [] incident_type = "4x" -> 4

(* Variant: the session counter grows by the incident's weight.           *)
add_incident_weighted(e, incident_type) == [e EXCEPT !.current_corner_incidents = @ + incident_value(incident_type), !.session_incidents[incident_type] = @ + incident_value(incident_type)]

add_incident(e, incident_type) ==
    [e EXCEPT !.current_corner_incidents = @ + incident_value(incident_type),
              !.session_incidents[incident_type] = @ + 1]

(* Variant: the signed changes are summed, so a repair offsets a hit.       *)
calculate_damage_change_net(e, rs) ==
    (rs.front_left_damage - e.last_damage_values.front_left)
    + (rs.front_right_damage - e.last_damage_values.front_right)
    + (rs.rear_left_damage - e.last_damage_values.rear_left)
    + (rs.rear_right_damage - e.last_damage_values.rear_right)

calculate_damage_change(e, rs) ==
    LET fl_change == Max(0, rs.front_left_damage
                            - e.last_damage_values.front_left)
        fr_change == Max(0, rs.front_right_damage
                            - e.last_damage_values.front_right)
        rl_change == Max(0, rs.rear_left_damage
                            - e.last_damage_values.rear_left)
        rr_change == Max(0, rs.rear_right_damage
                            - e.last_damage_values.rear_right)
    IN  fl_change + fr_change + rl_change + rr_change

update_damage_state(e, rs) ==
    [e EXCEPT !.last_damage_values =
        [front_left |-> rs.front_left_damage,
         front_right |-> rs.front_right_damage,
         rear_left |-> rs.rear_left_damage,
         rear_right |-> rs.rear_right_damage]]

(* Variant: the upper end of the scale is not enforced.                    *)
clamp_sr_floor_only(sr) == Max(MIN_SR, sr)

clamp_sr(sr) == Max(MIN_SR, Min(MAX_SR, sr))

(* int(sr) of a rating: its integer part                                   *)
sr_floor(sr) == sr \div SR_SCALE

(* Variant: only an upward crossing is pushed, a downward one is left.     *)
apply_boundary_bonus_upward_only(old_sr, new_sr) ==
    IF sr_floor(old_sr) # sr_floor(new_sr) /\ new_sr > old_sr
    THEN Max(MIN_SR, Min(MAX_SR, new_sr + BOUNDARY_BONUS))
    ELSE new_sr

apply_boundary_bonus(old_sr, new_sr) ==
    LET old_floor == sr_floor(old_sr)
        new_floor == sr_floor(new_sr)
    IN  IF old_floor # new_floor
        THEN IF new_sr > old_sr
             THEN clamp_sr(new_sr + BOUNDARY_BONUS)
             ELSE clamp_sr(new_sr - BOUNDARY_BONUS)
        ELSE new_sr

(* (current_cpi / target_cpi - 1.0) * sr_multiplier, as a multiple of       *)
(* 1 / SR_SCALE; current_cpi is corners_tracked / total_incidents, or      *)
(* 100.0 when total_incidents is 0.                                        *)
sr_delta(corners_tracked, total_incidents, sr_multiplier) ==
    LET mn == sr_multiplier[1]
        md == sr_multiplier[2]
    IN  IF total_incidents = 0
        THEN (PERFECT_CPI - TARGET_CPI) * mn
                 * (SR_SCALE \div (TARGET_CPI * md))
        ELSE (corners_tracked - TARGET_CPI * total_incidents) * mn
                 * (SR_SCALE \div (TARGET_CPI * total_incidents * md))

update_sr(e) ==
    IF e.corner_incidents = <<>>
    THEN [e EXCEPT !.current_sr = MIN_SR]
    ELSE LET old_sr == e.current_sr
             total_incidents == Sum(e.corner_incidents)
             corners_tracked == Len(e.corner_incidents)
             new_sr == clamp_sr(old_sr + sr_delta(corners_tracked,
                                                  total_incidents,
                                                  e.sr_multiplier))
         IN  [e EXCEPT !.current_sr = apply_boundary_bonus(old_sr, new_sr),
                       !.last_sr = old_sr]

(* Variant: the thresholds are exclusive.                                  *)
get_license_class_exclusive(sr) ==
    IF sr > Hundredths(700) THEN <<"SS", "#FFD700">>
    ELSE IF sr > Hundredths(600) THEN <<"A", "#0066FF">>
    ELSE IF sr > Hundredths(500) THEN <<"B", "#00AA00">>
    ELSE IF sr > Hundredths(400) THEN <<"C", "#FFAA00">>
    ELSE IF sr > Hundredths(300) THEN <<"D", "#FF0000">>
    ELSE <<"Rookie", "#888888">>

get_license_class(sr) ==
    IF sr >= Hundredths(700) THEN <<"SS", "#FFD700">>
    ELSE IF sr >= Hundredths(600) THEN <<"A", "#0066FF">>
    ELSE IF sr >= Hundredths(500) THEN <<"B", "#00AA00">>
    ELSE IF sr >= Hundredths(400) THEN <<"C", "#FFAA00">>
    ELSE IF sr >= Hundredths(300) THEN <<"D", "#FF0000">>
    ELSE <<"Rookie", "#888888">>

(* get_license_class called with its optional argument: the engine's      *)
(* rating stands in for an absent one                                      *)
get_license_class_opt(e, sr) ==
    get_license_class(IF sr = None THEN e.current_sr ELSE Val(sr))

(* round(current_sr, 2), in hundredths, ties to even                       *)
round_sr(sr) ==
    LET h == SR_SCALE \div 100
        q == sr \div h
        r == sr % h
    IN  IF 2 * r > h \/ (2 * r = h /\ q % 2 = 1) THEN q + 1 ELSE q

(* Variant: every off-track snapshot counts, not only the rising edge.     *)
sr_process_telemetry_level(e, rs) ==
    LET e1 == IF rs.current_lap # e.last_lap_number /\ rs.current_lap > 0
              THEN [complete_corner(e) EXCEPT
                        !.last_lap_number = rs.current_lap]
              ELSE e
        e2 == IF rs.is_off_track
              THEN add_incident(e1, "1x")
              ELSE e1
        e3 == [e2 EXCEPT !.last_off_track_state = rs.is_off_track]
        e4 == IF calculate_damage_change(e3, rs) > DAMAGE_THRESHOLD
              THEN add_incident(e3, "4x")
              ELSE e3
        e5 == update_damage_state(e4, rs)
    IN  update_sr(e5)

(* Variant: the incidents are detected before the corner is completed.     *)
sr_process_telemetry_incidents_first(e, rs) ==
    LET e2 == IF rs.is_off_track /\ ~e.last_off_track_state
              THEN add_incident(e, "1x")
              ELSE e
        e3 == [e2 EXCEPT !.last_off_track_state = rs.is_off_track]
        e4 == IF calculate_damage_change(e3, rs) > DAMAGE_THRESHOLD
              THEN add_incident(e3, "4x")
              ELSE e3
        e5 == update_damage_state(e4, rs)
        e6 == IF rs.current_lap # e.last_lap_number /\ rs.current_lap > 0
              THEN [complete_corner(e5) EXCEPT
                        !.last_lap_number = rs.current_lap]
              ELSE e5
    IN  update_sr(e6)

sr_process_telemetry(e, rs) ==
    LET e1 == IF rs.current_lap # e.last_lap_number /\ rs.current_lap > 0
              THEN [complete_corner(e) EXCEPT
                        !.last_lap_number = rs.current_lap]
              ELSE e
        e2 == IF rs.is_off_track /\ ~e1.last_off_track_state
              THEN add_incident(e1, "1x")
              ELSE e1
        e3 == [e2 EXCEPT !.last_off_track_state = rs.is_off_track]
        e4 == IF calculate_damage_change(e3, rs) > DAMAGE_THRESHOLD
              THEN add_incident(e3, "4x")
              ELSE e3
        e5 == update_damage_state(e4, rs)
    IN  update_sr(e5)

(* Variant: the window is emptied with the session statistics.            *)
reset_session_clears_window(e) ==
    [e EXCEPT !.session_incidents = [k \in IncidentTypes |-> 0],
              !.corners_completed = 0,
              !.current_corner_incidents = 0,
              !.last_lap_number = 0,
              !.last_off_track_state = FALSE,
              !.corner_incidents = <<>>]

(* Variant: the lap number of the ended session is remembered.            *)
reset_session_keeps_lap(e) ==
    [e EXCEPT !.session_incidents = [k \in IncidentTypes |-> 0],
              !.corners_completed = 0,
              !.current_corner_incidents = 0,
              !.last_off_track_state = FALSE]

reset_session(e) ==
    [e EXCEPT !.session_incidents = [k \in IncidentTypes |-> 0],
              !.corners_completed = 0,
              !.current_corner_incidents = 0,
              !.last_lap_number = 0,
              !.last_off_track_state = FALSE]

(* A legacy value (above MAX_SR, on the 0-100 scale) is remapped as        *)
(* MIN_SR + (sr_value / 100) * (MAX_SR - MIN_SR); the legacy values of the *)
(* model are whole multiples of 1.25, for which the division is exact      *)
(* (100 / 1.25 = 80 steps).                                                *)
LEGACY_STEP == (SR_SCALE \div 4) * 5

set_sr(e, sr_value) ==
    LET converted == IF sr_value > MAX_SR
                     THEN MIN_SR + (sr_value \div LEGACY_STEP)
                                       * ((MAX_SR - MIN_SR) \div 80)
                     ELSE sr_value
    IN  [e EXCEPT !.current_sr = clamp_sr(converted),
                  !.last_sr = clamp_sr(converted)]

(* round(sum / max(1, len), 3), in thousandths, ties to even               *)
round_avg(total, count) ==
    LET den == Max(1, count)
        q == (total * 1000) \div den
        r == (total * 1000) % den
    IN  IF 2 * r > den \/ (2 * r = den /\ q % 2 = 1) THEN q + 1 ELSE q

(* round(num / den, 2) for den > 0, in hundredths, ties to even           *)
round_hundredths(num, den) ==
    LET q == (num * 100) \div den
        r == (num * 100) % den
    IN  IF 2 * r > den \/ (2 * r = den /\ q % 2 = 1) THEN q + 1 ELSE q

(* The result of calculate_cpi: float('inf'), or a number of hundredths    *)
INFINITE_CPI == [inf |-> TRUE, hundredths |-> 0]
FiniteCpi(h) == [inf |-> FALSE, hundredths |-> h]

(* Variant: the quotient is cut to two decimals instead of rounded.        *)
calculate_cpi_truncated(e, total_corners) ==
    LET total_incidents == e.session_incidents["1x"]
                           + e.session_incidents["2x"]
                           + e.session_incidents["4x"]
    IN  IF total_incidents = 0 THEN INFINITE_CPI
        ELSE FiniteCpi((total_corners * 100) \div total_incidents)

calculate_cpi(e, total_corners) ==
    LET total_incidents == e.session_incidents["1x"]
                           + e.session_incidents["2x"]
                           + e.session_incidents["4x"]
    IN  IF total_incidents = 0 THEN INFINITE_CPI
        ELSE FiniteCpi(round_hundredths(total_corners, total_incidents))

(* The statistics of the engine at one point                               *)
get_stats(e) ==
    [current_sr |-> round_sr(e.current_sr),
     license_class |-> get_license_class(e.current_sr)[1],
     license_color |-> get_license_class(e.current_sr)[2],
     corners_completed |-> e.corners_completed,
     total_incidents |-> e.session_incidents["1x"]
                         + e.session_incidents["2x"]
                         + e.session_incidents["4x"],
     incidents_1x |-> e.session_incidents["1x"],
     incidents_2x |-> e.session_incidents["2x"],
     incidents_4x |-> e.session_incidents["4x"],
     incidents_in_window |-> Sum(e.corner_incidents),
     avg_incidents_per_corner |->
         round_avg(Sum(e.corner_incidents), Len(e.corner_incidents))]

----------------------------------------------------------------------------
(* F12019Adapter                                                           *)

HEADER_SIZE == 24
(* struct.calcsize('<HBBBBQfIB'): 2 + 1 + 1 + 1 + 1 + 8 + 4 + 4 + 1       *)
HEADER_FORMAT_SIZE == 23
SESSION_PACKET_SIZE == 240
LAP_DATA_SIZE == 41
CAR_DAMAGE_SIZE == 39
PACKET_ID_SESSION == 1
PACKET_ID_LAP_DATA == 2
PACKET_ID_CAR_DAMAGE == 6
(* struct format '<ffffBBBBBBBBBBBB' yields 16 values; the wing damage is  *)
(* read at indices 20, 21 and 22 of the unpacked tuple.                    *)
DAMAGE_TUPLE_LEN == 16
WING_INDEX == 20

(* A datagram: its length, the header fields and the payload the packet    *)
(* kind carries (session fields, or one record per car).                   *)
Datagram(len, packet_id, uid, time, player, payload) ==
    [len |-> len, packet_id |-> packet_id, session_uid |-> uid,
     session_time |-> time, player_car_index |-> player,
     payload |-> payload]

F12019Adapter_init == [last_race_state |-> None]

(* struct.unpack(format, buffer) raises struct.error unless the buffer has *)
(* exactly the size of the format                                          *)
unpack_raises(format_size, buffer_len) == buffer_len # format_size

(* data[:n] of a buffer of len bytes has min(len, n) bytes                 *)
slice_len(len, n) == IF len < n THEN len ELSE n

Parsed(a, rs) == [result |-> "state", rs |-> rs, adapter |-> a]
ParsedNone(a) == [result |-> "none", rs |-> NoSnapshot, adapter |-> a]
ParseRaised(a) == [result |-> "raise", rs |-> NoSnapshot, adapter |-> a]

(* The "update or create" tail of the three packet parsers: the held state *)
(* is updated in place when there is one, else a new state is returned     *)
(* (and not kept).                                                         *)
parse_session_packet(a, data, session_uid, session_time, t) ==
    IF data.len < SESSION_PACKET_SIZE THEN ParsedNone(a)
    ELSE LET session_type == data.payload.session_type
             track_id == data.payload.track_id
             game_paused == data.payload.game_paused = 1
         IN  IF a.last_race_state # None
             THEN LET rs == [Val(a.last_race_state) EXCEPT
                                !.session_type = session_type,
                                !.track_id = track_id,
                                !.game_paused = game_paused,
                                !.session_time = session_time,
                                !.session_uid = session_uid]
                  IN  Parsed([a EXCEPT !.last_race_state = Some(rs)], rs)
             ELSE Parsed(a, RaceState(session_uid, session_type, session_time,
                                      game_paused, track_id, 0, FALSE,
                                      0, 0, 0, 0, t))

parse_lap_data_packet(a, data, session_uid, session_time, player_index, t) ==
    IF data.len < HEADER_SIZE + (player_index + 1) * LAP_DATA_SIZE
    THEN ParsedNone(a)
    ELSE LET lap_data == data.payload[player_index + 1]
             current_lap_num == lap_data.current_lap_num
             current_lap_invalid == lap_data.current_lap_invalid = 1
         IN  IF a.last_race_state # None
             THEN LET rs == [Val(a.last_race_state) EXCEPT
                                !.current_lap = current_lap_num,
                                !.is_off_track = current_lap_invalid,
                                !.session_time = session_time,
                                !.session_uid = session_uid]
                  IN  Parsed([a EXCEPT !.last_race_state = Some(rs)], rs)
             ELSE Parsed(a, RaceState(session_uid, 0, session_time, FALSE, 0,
                                      current_lap_num, current_lap_invalid,
                                      0, 0, 0, 0, t))

parse_car_damage_packet(a, data, session_uid, session_time, player_index, t) ==
    IF data.len < HEADER_SIZE + (player_index + 1) * CAR_DAMAGE_SIZE
    THEN ParsedNone(a)
    ELSE IF WING_INDEX >= DAMAGE_TUPLE_LEN
    THEN ParseRaised(a)
    ELSE LET damage_data == data.payload[player_index + 1]
             front_left_wing == damage_data.front_left_wing
             front_right_wing == damage_data.front_right_wing
             rear_wing == damage_data.rear_wing
         IN  IF a.last_race_state # None
             THEN LET rs == [Val(a.last_race_state) EXCEPT
                                !.front_left_damage = front_left_wing,
                                !.front_right_damage = front_right_wing,
                                !.rear_left_damage = rear_wing,
                                !.rear_right_damage = rear_wing,
                                !.session_time = session_time,
                                !.session_uid = session_uid]
                  IN  Parsed([a EXCEPT !.last_race_state = Some(rs)], rs)
             ELSE Parsed(a, RaceState(session_uid, 0, session_time, FALSE, 0,
                                      0, FALSE, front_left_wing,
                                      front_right_wing, rear_wing, rear_wing,
                                      t))

(* Variant: the struct.error of the header unpack is not caught.           *)
parse_packet_uncaught(a, data, t) ==
    IF data.len < HEADER_SIZE THEN ParsedNone(a)
    ELSE IF unpack_raises(HEADER_FORMAT_SIZE, slice_len(data.len, HEADER_SIZE))
    THEN ParseRaised(a)
    ELSE ParsedNone(a)

parse_packet(a, data, t) ==
    IF data.len < HEADER_SIZE THEN ParsedNone(a)
    ELSE IF unpack_raises(HEADER_FORMAT_SIZE, slice_len(data.len, HEADER_SIZE))
    THEN ParsedNone(a)
    ELSE IF data.packet_id = PACKET_ID_SESSION
    THEN parse_session_packet(a, data, data.session_uid, data.session_time, t)
    ELSE IF data.packet_id = PACKET_ID_LAP_DATA
    THEN parse_lap_data_packet(a, data, data.session_uid, data.session_time,
                               data.player_car_index, t)
    ELSE IF data.packet_id = PACKET_ID_CAR_DAMAGE
    THEN parse_car_damage_packet(a, data, data.session_uid,
                                 data.session_time, data.player_car_index, t)
    ELSE ParsedNone(a)

----------------------------------------------------------------------------
(* Database: the user profile's rating and the sessions table              *)

KNOWN_GAME_TRACKS == 0..24
DEFAULT_TRACK_DB_ID == 1
DB_SYNC_INTERVAL == 2

Database_init(current_sr, session_ids) ==
    [current_sr |-> current_sr, closed |-> FALSE,
     sessions |-> [u \in session_ids |->
                      [track_id |-> DEFAULT_TRACK_DB_ID,
                       start_sr |-> current_sr, end_sr |-> None]]]

get_current_sr(d) == d.current_sr

update_sr_db(d, new_sr) == [d EXCEPT !.current_sr = new_sr]

(* The row of the tracks table: ids are handed out in insertion order      *)
get_track_by_game_id(game_track_id) ==
    IF game_track_id \in KNOWN_GAME_TRACKS
    THEN Some([id |-> game_track_id + 1, game_track_id |-> game_track_id])
    ELSE None

(* INSERT into sessions: fails on a session id that is already there       *)
start_session(d, session_uid, track_id, start_sr) ==
    IF session_uid \in DOMAIN d.sessions
    THEN [db |-> d, success |-> FALSE]
    ELSE [db |-> [d EXCEPT !.sessions =
                     [u \in DOMAIN d.sessions \cup {session_uid} |->
                        IF u = session_uid
                        THEN [track_id |-> track_id, start_sr |-> start_sr,
                              end_sr |-> None]
                        ELSE d.sessions[u]]],
          success |-> TRUE]

(* UPDATE sessions WHERE session_id = ?: succeeds when a row was updated   *)
end_session(d, session_uid, end_sr) ==
    IF session_uid \in DOMAIN d.sessions
    THEN [db |-> [d EXCEPT !.sessions[session_uid].end_sr = Some(end_sr)],
          success |-> TRUE]
    ELSE [db |-> d, success |-> FALSE]

----------------------------------------------------------------------------
(* F1SafetyRateTracker: the callbacks and the receive loop                 *)

F1SafetyRateTracker_init ==
    [running |-> FALSE, exited |-> FALSE, packets_received |-> 0,
     last_db_sync_time |-> 0, current_track_name |-> <<"Unknown">>,
     sock |-> "none", loop_pc |-> "idle", stop_pc |-> "none"]

(* A state of the application's objects                                    *)
World(a, m, e, d, f) == [adapter |-> a, sm |-> m, eng |-> e, db |-> d, app |-> f]

on_race_start(w, session_uid, track_id) ==
    LET track_info == get_track_by_game_id(track_id)
        name == IF track_info # None THEN <<"track", track_id>>
                ELSE <<"Track #", track_id>>
        track_db_id == IF track_info # None THEN Val(track_info).id
                       ELSE DEFAULT_TRACK_DB_ID
        current_sr == w.eng.current_sr
        r == start_session(w.db, session_uid, track_db_id, current_sr)
    IN  [w EXCEPT !.app.current_track_name = name,
                  !.db = r.db,
                  !.eng = IF r.success THEN reset_session(w.eng) ELSE w.eng]

on_race_end(w, session_uid) ==
    LET final_sr == w.eng.current_sr
        r == end_session(w.db, session_uid, final_sr)
    IN  [w EXCEPT !.db = update_sr_db(r.db, final_sr)]

RECURSIVE run_callbacks(_, _)
run_callbacks(w, cs) ==
    IF cs = <<>> THEN w
    ELSE LET c == Head(cs)
             w1 == IF c.cb = "on_race_start"
                   THEN on_race_start(w, c.uid, c.track)
                   ELSE on_race_end(w, c.uid)
         IN  run_callbacks(w1, Tail(cs))

sync_sr_to_database_if_needed(w, current_time) ==
    IF current_time - w.app.last_db_sync_time >= DB_SYNC_INTERVAL
       /\ ~w.db.closed
    THEN [w EXCEPT !.db = update_sr_db(w.db, w.eng.current_sr),
                   !.app.last_db_sync_time = current_time]
    ELSE w

(* Variant: the engine is gated on the tracker's state before the session  *)
(* check instead of after it.                                              *)
telemetry_loop_decoded_stale(w, p, t) ==
    LET w0 == [w EXCEPT !.app.packets_received = @ + 1]
        w1 == [w0 EXCEPT !.adapter = p.adapter]
    IN  IF p.result # "state"
        THEN [w |-> w1, calls |-> <<>>, decoded |-> FALSE,
              raised |-> p.result = "raise", rs |-> NoSnapshot,
              engine_ran |-> FALSE]
        ELSE LET r == process_telemetry(w1.sm, p.rs)
                 w2 == run_callbacks([w1 EXCEPT !.sm = r.m], r.calls)
                 active == is_race_active(w1.sm)
                 w3 == IF active
                       THEN sync_sr_to_database_if_needed(
                                [w2 EXCEPT !.eng =
                                     sr_process_telemetry(w2.eng, p.rs)], t)
                       ELSE w2
             IN  [w |-> w3, calls |-> r.calls, decoded |-> TRUE,
                  raised |-> FALSE, rs |-> p.rs, engine_ran |-> active]

(* One pass of the body of the receive loop at time t, parse_packet having *)
(* given p: the objects afterwards, the callbacks made, the decoded        *)
(* snapshot and whether the engine was given it.                           *)
telemetry_loop_decoded(w, p, t) ==
    LET w0 == [w EXCEPT !.app.packets_received = @ + 1]
        w1 == [w0 EXCEPT !.adapter = p.adapter]
    IN  IF p.result # "state"
        THEN [w |-> w1, calls |-> <<>>, decoded |-> FALSE,
              raised |-> p.result = "raise", rs |-> NoSnapshot,
              engine_ran |-> FALSE]
        ELSE LET r == process_telemetry(w1.sm, p.rs)
                 w2 == run_callbacks([w1 EXCEPT !.sm = r.m], r.calls)
                 active == is_race_active(w2.sm)
                 w3 == IF active
                       THEN sync_sr_to_database_if_needed(
                                [w2 EXCEPT !.eng =
                                     sr_process_telemetry(w2.eng, p.rs)], t)
                       ELSE w2
             IN  [w |-> w3, calls |-> r.calls, decoded |-> TRUE,
                  raised |-> FALSE, rs |-> p.rs, engine_ran |-> active]

(* One pass of the body of the receive loop for the datagram data received *)
(* at time t                                                               *)
telemetry_loop_body(w, data, t) ==
    telemetry_loop_decoded(w, parse_packet(w.adapter, data, t), t)

(* The while condition of the receive loop                                 *)
loop_condition_forever(f) == TRUE

loop_condition(f) == f.running

(* The except clauses of the receive loop: where the thread goes on an     *)
(* exception of the given kind raised in the try block                     *)
loop_handler_timeout_only(exc) == IF exc = "socket.timeout" THEN "poll" ELSE "done"

loop_handler(exc) == IF exc = "socket.timeout" THEN "poll" ELSE "poll"

(* session_manager.process_telemetry with the application's callbacks      *)
(* called from within it: on a closed database connection on_race_start    *)
(* raises out of get_track_by_game_id, after _start_race has set the       *)
(* tracker's fields, and on_race_end raises out of update_sr, before       *)
(* _reset; the exception leaves process_telemetry at once.                 *)
session_check(w, rs) ==
    LET r == process_telemetry(w.sm, rs)
    IN  IF r.calls # <<>> /\ w.db.closed
        THEN [w |-> IF r.calls[1].cb = "on_race_start"
                    THEN [w EXCEPT !.sm = start_race(w.sm, Str(rs.session_uid),
                                                     rs.track_id,
                                                     rs.session_time).m]
                    ELSE w,
              calls |-> r.calls, raised |-> TRUE]
        ELSE [w |-> run_callbacks([w EXCEPT !.sm = r.m], r.calls),
              calls |-> r.calls, raised |-> FALSE]

(* The try block of the receive loop after recvfrom has returned a         *)
(* datagram, with the exceptions it can end in: parse_packet having given  *)
(* p, and engine_fault telling whether sr_engine.process_telemetry raises  *)
(* (taken at its entry).                                                   *)
telemetry_loop_try(w, p, t, engine_fault) ==
    LET w1 == [w EXCEPT !.adapter = p.adapter]
    IN  IF p.result # "state"
        THEN [w |-> w1, calls |-> <<>>, decoded |-> FALSE,
              raised |-> p.result = "raise", rs |-> NoSnapshot,
              engine_ran |-> FALSE]
        ELSE LET c == session_check(w1, p.rs)
                 active == is_race_active(c.w.sm)
             IN  IF c.raised \/ ~active \/ engine_fault
                 THEN [w |-> c.w, calls |-> c.calls, decoded |-> TRUE,
                       raised |-> c.raised \/ (active /\ engine_fault),
                       rs |-> p.rs, engine_ran |-> FALSE]
                 ELSE [w |-> sync_sr_to_database_if_needed(
                                 [c.w EXCEPT !.eng =
                                      sr_process_telemetry(c.w.eng, p.rs)], t),
                       calls |-> c.calls, decoded |-> TRUE, raised |-> FALSE,
                       rs |-> p.rs, engine_ran |-> TRUE]

(* stop() after it has cleared the running flag: the active session is     *)
(* force-ended, then the socket and the database connection are closed     *)
stop_close(w) ==
    LET r == IF is_race_active(w.sm)
             THEN force_end_current_session(w.sm)
             ELSE [m |-> w.sm, calls |-> <<>>]
        w2 == run_callbacks([w EXCEPT !.sm = r.m], r.calls)
    IN  [w |-> [w2 EXCEPT !.app.sock = "closed", !.db.closed = TRUE],
         calls |-> r.calls]

(* stop(): clears the running flag, force-ends an active session, closes   *)
(* the socket and the database, and exits the process                      *)
stop(w) ==
    IF ~w.app.running THEN [w |-> w, calls |-> <<>>]
    ELSE LET r == stop_close([w EXCEPT !.app.running = FALSE])
         IN  [w |-> [r.w EXCEPT !.app.exited = TRUE], calls |-> r.calls]

----------------------------------------------------------------------------
(* History variables of the tracker                                        *)

NextLastStarted(cs, old) ==
    IF \E i \in 1..Len(cs) : cs[i].cb = "on_race_start"
    THEN LET i == CHOOSE j \in 1..Len(cs) : cs[j].cb = "on_race_start"
         IN  Some(cs[i].uid)
    ELSE old

(* The surplus of start over end callbacks is counted exactly up to        *)
(* MaxSurplus and never above it, so the recorded surplus is at most the   *)
(* true one: a recorded surplus that never goes below zero means the end   *)
(* callbacks never outnumber the start callbacks.                          *)
MaxSurplus == 1

NoNotifications == [since_start |-> <<>>, surplus |-> 0]

Notify(n, c) ==
    IF c.cb = "on_race_start"
    THEN [since_start |-> <<c.cb>>,
          surplus |-> IF n.surplus < MaxSurplus THEN n.surplus + 1
                      ELSE n.surplus]
    ELSE [since_start |-> Append(n.since_start, c.cb),
          surplus |-> n.surplus - 1]

RECURSIVE NextNotified(_, _)
NextNotified(cs, old) ==
    IF cs = <<>> THEN old ELSE NextNotified(Tail(cs), Notify(old, Head(cs)))

(* The run of paused snapshots received while Active: it begins with the   *)
(* first paused snapshot the Active tracker has after an unpaused one (or  *)
(* after the start), and is over with an unpaused snapshot or the session. *)
NextPauseRun(activeBefore, activeAfter, rs, old) ==
    IF ~activeAfter \/ ~rs.game_paused THEN None
    ELSE IF activeBefore /\ old # None THEN old
    ELSE Some(rs.timestamp)

----------------------------------------------------------------------------
(* Initial values                                                          *)

(* The lap test of process_telemetry, and the totals pushed so far after a  *)
(* snapshot is processed by an engine in state e                           *)
LapChanged(e, rs) == rs.current_lap # e.last_lap_number /\ rs.current_lap > 0

NextPushed(e, rs, old) ==
    IF LapChanged(e, rs) THEN Append(old, e.current_corner_incidents) ELSE old

NoCall == [fn |-> "none", args |-> <<>>, result |-> None]

NoTrace ==
    [decoded |-> FALSE, raised |-> FALSE, engine_ran |-> FALSE,
     reset_ran |-> FALSE]
ReaderIdle == [pc |-> "idle", stats |-> <<>>, points |-> {}]

TrackerInit ==
    /\ sm = SessionManager_init
    /\ before = [sm |-> sm]
    /\ lastStarted = None
    /\ notified = NoNotifications
    /\ pauseRun = None
    /\ calls = <<>>
    /\ op = [name |-> "init", rs |-> NoSnapshot]

EngineInit(sr_multiplier) ==
    /\ eng = SREngine_init(WindowSize, sr_multiplier)
    /\ steps = 0
    /\ offHistory = <<>>
    /\ prevDamage = eng.last_damage_values
    /\ pushed = <<>>

(* The application's objects as constructed, before start()                *)
AppInit(stored_sr, stored_sessions) ==
    /\ adapter = F12019Adapter_init
    /\ db = Database_init(stored_sr, stored_sessions)
    /\ app = F1SafetyRateTracker_init
    /\ trace = NoTrace

----------------------------------------------------------------------------
(* The tracker driven by a stream of snapshots, with recording callbacks   *)

Init ==
    /\ TrackerInit
    /\ EngineInit(DEFAULT_SR_MULTIPLIER)
    /\ AppInit(100 * SR_SCALE, {})
    /\ rd = ReaderIdle
    /\ pure = NoCall
    /\ now = 0

SessionManager_process_telemetry ==
    \E rs \in TrackerSnapshots(now) :
        \E r \in {process_telemetry(sm, rs)} :
        /\ sm' = r.m
        /\ calls' = r.calls
        /\ op' = [name |-> "process_telemetry", rs |-> rs]
        /\ now' = rs.timestamp
        /\ before' = [sm |-> sm]
        /\ lastStarted' = NextLastStarted(r.calls, lastStarted)
        /\ notified' = NextNotified(r.calls, notified)
        /\ pauseRun' = NextPauseRun(is_race_active(sm), is_race_active(r.m),
                                    rs, pauseRun)
        /\ UNCHANGED <<engineVars, appVars, rd, pure>>

SessionManager_force_end_current_session ==
    LET r == force_end_current_session(sm) IN
    /\ sm' = r.m
    /\ calls' = r.calls
    /\ op' = [name |-> "force_end_current_session", rs |-> NoSnapshot]
    /\ before' = [sm |-> sm]
    /\ pauseRun' = None
    /\ notified' = NextNotified(r.calls, notified)
    /\ UNCHANGED <<now, lastStarted, engineVars, appVars, rd, pure>>

Next ==
    \/ SessionManager_process_telemetry
    \/ SessionManager_force_end_current_session

Spec == Init /\ [][Next]_vars

----------------------------------------------------------------------------
(* The engine driven by a stream of snapshots, session resets and rating   *)
(* imports                                                                 *)

Laps == {0, 1, 2}

(* Damage vectors <<front-left, front-right, rear-left, rear-right>>       *)
DamageVecs == {<<0, 0, 0, 0>>, <<0, 0, 6, 0>>}

EngineSnapshots ==
    { RaceState(1, RACE_SESSION_TYPE, 1, FALSE, 3, lap, off,
                d[1], d[2], d[3], d[4], 0) :
        lap \in Laps, off \in BOOLEAN, d \in DamageVecs }

(* Ratings handed to set_sr: the legacy default 100.0, a native 2.95 and a  *)
(* value below the scale                                                   *)
SetSrInputs == {100 * SR_SCALE, Hundredths(295), 0}

InitEngine ==
    /\ TrackerInit
    /\ \E m \in {DEFAULT_SR_MULTIPLIER, APP_SR_MULTIPLIER} : EngineInit(m)
    /\ AppInit(100 * SR_SCALE, {})
    /\ rd = ReaderIdle
    /\ pure = NoCall
    /\ now = 0

(* The engine's operations, without the variables of the reader            *)
EngineProcess(snapshots, maxSteps) ==
    /\ steps < maxSteps
    /\ \E rs \in snapshots :
        \E e \in {sr_process_telemetry(eng, rs)} :
        /\ Sum(e.corner_incidents) <= MaxWindowWeight
        /\ eng' = e
        /\ steps' = steps + 1
        /\ offHistory' = Append(offHistory, rs.is_off_track)
        /\ pushed' = NextPushed(eng, rs, pushed)
        /\ op' = [name |-> "sr_process_telemetry", rs |-> rs]
        /\ calls' = <<>>
        /\ UNCHANGED <<before, trackerVars, appVars>>

EngineReset ==
    /\ eng' = reset_session(eng)
    /\ offHistory' = <<>>
    /\ op' = [name |-> "reset_session", rs |-> NoSnapshot]
    /\ calls' = <<>>
    /\ UNCHANGED <<steps, pushed, before, trackerVars, appVars>>

EngineSetSr ==
    \E sr_value \in SetSrInputs :
        /\ eng' = set_sr(eng, sr_value)
        /\ op' = [name |-> "set_sr", rs |-> NoSnapshot]
        /\ calls' = <<>>
        /\ UNCHANGED <<steps, offHistory, pushed, before, trackerVars,
                       appVars>>

SREngine_process_telemetry ==
    /\ EngineProcess(EngineSnapshots, MaxSteps)
    /\ UNCHANGED <<prevDamage, rd, pure>>

SREngine_reset_session ==
    /\ EngineReset
    /\ UNCHANGED <<prevDamage, rd, pure>>

SREngine_set_sr ==
    /\ EngineSetSr
    /\ UNCHANGED <<prevDamage, rd, pure>>

NextEngine ==
    \/ SREngine_process_telemetry
    \/ SREngine_reset_session
    \/ SREngine_set_sr

SpecEngine == InitEngine /\ [][NextEngine]_vars

----------------------------------------------------------------------------
(* A fresh engine given clean snapshots only: no off-track flag and no     *)
(* damage, the lap number free                                             *)

MaxCleanSteps == 4

CleanSnapshots ==
    { RaceState(1, RACE_SESSION_TYPE, 1, FALSE, 3, lap, FALSE, 0, 0, 0, 0, 0) :
        lap \in Laps }

InitClean ==
    /\ TrackerInit
    /\ \E m \in {DEFAULT_SR_MULTIPLIER, APP_SR_MULTIPLIER} : EngineInit(m)
    /\ AppInit(100 * SR_SCALE, {})
    /\ rd = ReaderIdle
    /\ pure = NoCall
    /\ now = 0

SREngine_process_clean ==
    /\ EngineProcess(CleanSnapshots, MaxCleanSteps)
    /\ UNCHANGED <<prevDamage, rd, pure>>

NextClean == SREngine_process_clean

SpecClean == InitClean /\ [][NextClean]_vars

----------------------------------------------------------------------------
(* Damage detection: the engine given every pair of successive damage      *)
(* vectors over DamageLevels                                               *)

DamageLevels == {0, 2, 3}
MaxDamageSteps == 2

DamageSnapshots ==
    { RaceState(1, RACE_SESSION_TYPE, 1, FALSE, 3, 0, FALSE,
                fl, fr, rl, rr, 0) :
        fl \in DamageLevels, fr \in DamageLevels,
        rl \in DamageLevels, rr \in DamageLevels }

InitDamage ==
    /\ TrackerInit
    /\ EngineInit(DEFAULT_SR_MULTIPLIER)
    /\ AppInit(100 * SR_SCALE, {})
    /\ rd = ReaderIdle
    /\ pure = NoCall
    /\ now = 0

SREngine_process_damage ==
    /\ EngineProcess(DamageSnapshots, MaxDamageSteps)
    /\ prevDamage' = eng.last_damage_values
    /\ UNCHANGED <<rd, pure>>

NextDamage == SREngine_process_damage

SpecDamage == InitDamage /\ [][NextDamage]_vars

----------------------------------------------------------------------------
(* A reader thread in SREngine.get_stats while another thread drives the   *)
(* engine: each field the reader fetches is one step of its own            *)

MaxReaderWrites == 2

ReaderSnapshots ==
    { RaceState(1, RACE_SESSION_TYPE, 1, FALSE, 3, lap, off,
                d[1], d[2], d[3], d[4], 0) :
        lap \in {0, 1}, off \in BOOLEAN, d \in DamageVecs }

SetField(f, k, v) == [x \in DOMAIN f \cup {k} |-> IF x = k THEN v ELSE f[x]]

(* While a read is under way, every state the writer leaves the engine in  *)
(* is a point the reader's result could stand for.                         *)
NotePoint(r, e) ==
    IF r.pc \in {"idle", "done"} THEN r
    ELSE [r EXCEPT !.points = @ \cup {get_stats(e)}]

ReadField(at, next, field, value) ==
    /\ rd.pc = at
    /\ rd' = [rd EXCEPT !.pc = next, !.stats = SetField(@, field, value)]
    /\ UNCHANGED <<sm, eng, adapter, db, app, now, calls, op, steps, trace, pure,
                   before, lastStarted, notified, pauseRun, offHistory, prevDamage,
                   pushed>>

Reader_call ==
    /\ rd.pc = "idle"
    /\ rd' = [pc |-> "total_incidents", stats |-> <<>>,
              points |-> {get_stats(eng)}]
    /\ UNCHANGED <<sm, eng, adapter, db, app, now, calls, op, steps, trace, pure,
                   before, lastStarted, notified, pauseRun, offHistory, prevDamage,
                   pushed>>

Reader_total_incidents ==
    ReadField("total_incidents", "license_class", "total_incidents",
              eng.session_incidents["1x"] + eng.session_incidents["2x"]
              + eng.session_incidents["4x"])

Reader_license_class ==
    /\ rd.pc = "license_class"
    /\ rd' = [rd EXCEPT
                !.pc = "current_sr",
                !.stats = SetField(SetField(@, "license_class",
                                       get_license_class(eng.current_sr)[1]),
                                   "license_color",
                                   get_license_class(eng.current_sr)[2])]
    /\ UNCHANGED <<sm, eng, adapter, db, app, now, calls, op, steps, trace, pure,
                   before, lastStarted, notified, pauseRun, offHistory, prevDamage,
                   pushed>>

Reader_current_sr ==
    ReadField("current_sr", "corners_completed", "current_sr",
              round_sr(eng.current_sr))

Reader_corners_completed ==
    ReadField("corners_completed", "incidents_1x", "corners_completed",
              eng.corners_completed)

Reader_incidents_1x ==
    ReadField("incidents_1x", "incidents_2x", "incidents_1x",
              eng.session_incidents["1x"])

Reader_incidents_2x ==
    ReadField("incidents_2x", "incidents_4x", "incidents_2x",
              eng.session_incidents["2x"])

Reader_incidents_4x ==
    ReadField("incidents_4x", "incidents_in_window", "incidents_4x",
              eng.session_incidents["4x"])

Reader_incidents_in_window ==
    ReadField("incidents_in_window", "avg_incidents_per_corner",
              "incidents_in_window", Sum(eng.corner_incidents))

Reader_avg_incidents_per_corner ==
    ReadField("avg_incidents_per_corner", "done", "avg_incidents_per_corner",
              round_avg(Sum(eng.corner_incidents), Len(eng.corner_incidents)))

Reader_return ==
    /\ rd.pc = "done"
    /\ rd' = ReaderIdle
    /\ UNCHANGED <<sm, eng, adapter, db, app, now, calls, op, steps, trace, pure,
                   before, lastStarted, notified, pauseRun, offHistory, prevDamage,
                   pushed>>

Writer_process_telemetry ==
    /\ EngineProcess(ReaderSnapshots, MaxReaderWrites)
    /\ rd' = NotePoint(rd, eng')
    /\ UNCHANGED <<prevDamage, pure>>

Writer_reset_session ==
    /\ EngineReset
    /\ rd' = NotePoint(rd, eng')
    /\ UNCHANGED <<prevDamage, pure>>

InitReader ==
    /\ TrackerInit
    /\ EngineInit(DEFAULT_SR_MULTIPLIER)
    /\ AppInit(100 * SR_SCALE, {})
    /\ rd = ReaderIdle
    /\ pure = NoCall
    /\ now = 0

NextReader ==
    \/ Writer_process_telemetry
    \/ Writer_reset_session
    \/ Reader_call
    \/ Reader_total_incidents
    \/ Reader_license_class
    \/ Reader_current_sr
    \/ Reader_corners_completed
    \/ Reader_incidents_1x
    \/ Reader_incidents_2x
    \/ Reader_incidents_4x
    \/ Reader_incidents_in_window
    \/ Reader_avg_incidents_per_corner
    \/ Reader_return

SpecReader == InitReader /\ [][NextReader]_vars

----------------------------------------------------------------------------
(* The application: construction, start(), the receive loop and stop()     *)

MaxPackets == 3
APP_CLOCK_START == 100
AppTimestamps == {100, 101, 133}
AppSessionTimes == {1, 61}

(* Session packets of full length on a known track, and three odd ones: a  *)
(* truncated packet, a track id of -1, and a pause byte that is not 0 or 1 *)
SessionDatagrams ==
    { Datagram(SESSION_PACKET_SIZE, PACKET_ID_SESSION, u, t, 0,
               [session_type |-> ty, track_id |-> 3, game_paused |-> p]) :
        u \in SessionUids, t \in AppSessionTimes, ty \in SessionTypes,
        p \in {0, 1} }
    \cup
    { Datagram(SESSION_PACKET_SIZE - 1, PACKET_ID_SESSION, 1, 1, 0,
               [session_type |-> RACE_SESSION_TYPE, track_id |-> 3,
                game_paused |-> 0]),
      Datagram(SESSION_PACKET_SIZE, PACKET_ID_SESSION, 2, 1, 0,
               [session_type |-> RACE_SESSION_TYPE, track_id |-> -1,
                game_paused |-> 0]),
      Datagram(SESSION_PACKET_SIZE, PACKET_ID_SESSION, 1, 0, 0,
               [session_type |-> RACE_SESSION_TYPE, track_id |-> 3,
                game_paused |-> 0]),
      Datagram(SESSION_PACKET_SIZE, PACKET_ID_SESSION, 1, 61, 0,
               [session_type |-> RACE_SESSION_TYPE, track_id |-> 3,
                game_paused |-> 2]) }

LapRecords ==
    { <<[current_lap_num |-> 1, current_lap_invalid |-> 1]>>,
      <<[current_lap_num |-> 0, current_lap_invalid |-> 0],
        [current_lap_num |-> 2, current_lap_invalid |-> 2]>> }

LapDatagrams ==
    { Datagram(HEADER_SIZE + LAP_DATA_SIZE * Len(cars), PACKET_ID_LAP_DATA,
               1, 61, player, cars) :
        player \in {0, 1}, cars \in LapRecords }

DamageDatagrams ==
    { Datagram(len, PACKET_ID_CAR_DAMAGE, 1, 61, 0,
               <<[front_left_wing |-> 6, front_right_wing |-> 0,
                  rear_wing |-> 3]>>) :
        len \in {HEADER_SIZE + CAR_DAMAGE_SIZE - 1,
                 HEADER_SIZE + CAR_DAMAGE_SIZE} }

OtherDatagrams ==
    { Datagram(HEADER_SIZE - 1, PACKET_ID_SESSION, 1, 1, 0, <<>>),
      Datagram(HEADER_SIZE, 0, 1, 1, 0, <<>>) }

AppDatagrams ==
    SessionDatagrams \cup LapDatagrams \cup DamageDatagrams
        \cup OtherDatagrams

(* Ratings and sessions a history.db may hold from earlier runs            *)
StoredRatings == {100 * SR_SCALE, Hundredths(420)}
StoredSessions == {{}, {Str(1)}}

InitApp ==
    /\ TrackerInit
    /\ \E stored_sr \in StoredRatings, stored \in StoredSessions :
        /\ AppInit(stored_sr, stored)
        /\ eng = set_sr(SREngine_init(WindowSize, APP_SR_MULTIPLIER),
                        get_current_sr(db))
    /\ steps = 0
    /\ offHistory = <<>>
    /\ prevDamage = eng.last_damage_values
    /\ pushed = <<>>
    /\ rd = ReaderIdle
    /\ pure = NoCall
    /\ now = APP_CLOCK_START

App_start ==
    /\ ~app.running
    /\ ~app.exited
    /\ app' = [app EXCEPT !.running = TRUE, !.sock = "open",
                          !.loop_pc = "poll"]
    /\ op' = [name |-> "start", rs |-> NoSnapshot]
    /\ calls' = <<>>
    /\ trace' = NoTrace
    /\ before' = [sm |-> sm]
    /\ UNCHANGED <<sm, eng, adapter, db, rd, pure, now, steps, lastStarted, notified,
                   pauseRun, offHistory, prevDamage, pushed>>

(* The session reset of the start callback ran: a start call was made for  *)
(* a session id the sessions table did not hold.                           *)
ResetRan(cs, d) ==
    \E i \in 1..Len(cs) :
        /\ cs[i].cb = "on_race_start"
        /\ cs[i].uid \notin DOMAIN d.sessions
        /\ ~d.closed

(* The state after one pass of the receive loop at time t, r being what    *)
(* the body gave                                                           *)
AppPass(r, t) ==
        LET h == IF ResetRan(r.calls, db) THEN <<>> ELSE offHistory
            e0 == IF ResetRan(r.calls, db) THEN reset_session(eng) ELSE eng
        IN
        /\ adapter' = r.w.adapter
        /\ sm' = r.w.sm
        /\ eng' = r.w.eng
        /\ db' = r.w.db
        /\ app' = r.w.app
        /\ now' = t
        /\ calls' = r.calls
        /\ op' = [name |-> "telemetry_loop", rs |-> r.rs]
        /\ trace' = [decoded |-> r.decoded, raised |-> r.raised,
                     engine_ran |-> r.engine_ran,
                     reset_ran |-> ResetRan(r.calls, db)]
        /\ steps' = IF r.engine_ran THEN steps + 1 ELSE steps
        /\ offHistory' = IF r.engine_ran THEN Append(h, r.rs.is_off_track)
                         ELSE h
        /\ pushed' = IF r.engine_ran THEN NextPushed(e0, r.rs, pushed)
                     ELSE pushed
        /\ before' = [sm |-> sm]
        /\ lastStarted' = NextLastStarted(r.calls, lastStarted)
        /\ notified' = NextNotified(r.calls, notified)
        /\ pauseRun' = IF r.decoded
                       THEN NextPauseRun(is_race_active(sm),
                                         is_race_active(r.w.sm), r.rs,
                                         pauseRun)
                       ELSE pauseRun
        /\ UNCHANGED <<rd, pure, prevDamage>>

(* One pass of the receive loop, Bodies(t) being the results the body can  *)
(* give at time t                                                          *)
AppLoop(Bodies(_)) ==
    /\ app.running
    /\ app.packets_received < MaxPackets
    /\ \E t \in {x \in AppTimestamps : x >= now} : \E r \in Bodies(t) :
            AppPass(r, t)

DatagramBodies(t) ==
    { telemetry_loop_body(World(adapter, sm, eng, db, app), data, t) :
        data \in AppDatagrams }

App_telemetry_loop == AppLoop(DatagramBodies)

App_stop ==
    /\ app.running
    /\ \E r \in {stop(World(adapter, sm, eng, db, app))} :
        /\ adapter' = r.w.adapter
        /\ sm' = r.w.sm
        /\ eng' = r.w.eng
        /\ db' = r.w.db
        /\ app' = r.w.app
        /\ calls' = r.calls
        /\ op' = [name |-> "stop", rs |-> NoSnapshot]
        /\ trace' = NoTrace
        /\ before' = [sm |-> sm]
        /\ pauseRun' = None
        /\ notified' = NextNotified(r.calls, notified)
        /\ UNCHANGED <<rd, pure, now, steps, lastStarted, offHistory, prevDamage,
                       pushed>>

NextApp ==
    \/ App_start
    \/ App_telemetry_loop
    \/ App_stop

SpecApp == InitApp /\ [][NextApp]_vars

----------------------------------------------------------------------------
(* The receive loop against the adapter interface: parse_packet gives no   *)
(* snapshot, a snapshot, or raises (BaseAdapter.parse_packet returns       *)
(* Optional[RaceState])                                                    *)

LoopSnapshots(t) ==
    { RaceState(u, ty, st, p, 3, 0, FALSE, 0, 0, 0, 0, t) :
        u \in SessionUids, st \in AppSessionTimes, ty \in SessionTypes,
        p \in BOOLEAN }
    \cup
    { RaceState(2, RACE_SESSION_TYPE, 1, FALSE, -1, 0, FALSE, 0, 0, 0, 0, t),
      RaceState(1, RACE_SESSION_TYPE, 0, FALSE, 3, 0, FALSE, 0, 0, 0, 0, t),
      RaceState(1, RACE_SESSION_TYPE, 61, FALSE, 3, 1, TRUE, 6, 0, 0, 0, t) }

DecodedBodies(t) ==
    { telemetry_loop_decoded(World(adapter, sm, eng, db, app), p, t) :
        p \in {ParsedNone(adapter), ParseRaised(adapter)}
              \cup { Parsed(adapter, rs) : rs \in LoopSnapshots(t) } }

App_telemetry_loop_decoded == AppLoop(DecodedBodies)

NextLoop ==
    \/ App_start
    \/ App_telemetry_loop_decoded
    \/ App_stop

SpecLoop == InitApp /\ [][NextLoop]_vars

----------------------------------------------------------------------------
(* The receive loop as a thread of its own, step by step, and stop() on    *)
(* the main thread                                                         *)

MaxThreadPackets == 2

ThreadSnapshots(t) ==
    { RaceState(1, RACE_SESSION_TYPE, 1, FALSE, 3, 0, FALSE, 0, 0, 0, 0, t),
      RaceState(1, RACE_SESSION_TYPE, 61, FALSE, 3, 1, TRUE, 6, 0, 0, 0, t),
      RaceState(1, 0, 61, FALSE, 3, 1, FALSE, 6, 0, 0, 0, t),
      RaceState(2, RACE_SESSION_TYPE, 1, FALSE, 3, 0, FALSE, 0, 0, 0, 0, t) }

ThreadUndecoded(t) ==
    { telemetry_loop_try(World(adapter, sm, eng, db, app), p, t, FALSE) :
        p \in {ParsedNone(adapter), ParseRaised(adapter)} }

ThreadDecoded(t) ==
    { telemetry_loop_try(World(adapter, sm, eng, db, app),
                         Parsed(adapter, rs), t, engine_fault) :
        rs \in ThreadSnapshots(t), engine_fault \in BOOLEAN }

(* start(): the flag is set, the socket bound and the thread started       *)
Main_start ==
    /\ app.loop_pc = "idle"
    /\ app' = [app EXCEPT !.running = TRUE, !.sock = "open",
                          !.loop_pc = "poll"]
    /\ op' = [name |-> "start", rs |-> NoSnapshot]
    /\ calls' = <<>>
    /\ trace' = NoTrace
    /\ before' = [sm |-> sm]
    /\ UNCHANGED <<sm, eng, adapter, db, rd, pure, now, steps, lastStarted, notified,
                   pauseRun, offHistory, prevDamage, pushed>>

(* while self.running: ... if self.sock is None: break                     *)
Loop_poll ==
    /\ app.loop_pc = "poll"
    /\ app' = [app EXCEPT !.loop_pc =
                   IF loop_condition(app) /\ app.sock # "none"
                   THEN "recv" ELSE "done"]
    /\ UNCHANGED <<sm, eng, adapter, db, rd, pure, now, calls, op, steps,
                   trace, before, lastStarted, notified, pauseRun, offHistory,
                   prevDamage, pushed>>

(* recvfrom under the one-second timeout: a datagram, socket.timeout, or   *)
(* OSError on a closed socket                                              *)
Loop_recvfrom ==
    /\ app.loop_pc = "recv"
    /\ \/ /\ app.sock = "closed"
          /\ app' = [app EXCEPT !.loop_pc = loop_handler("OSError")]
       \/ /\ app.sock = "open"
          /\ app' = [app EXCEPT !.loop_pc = loop_handler("socket.timeout")]
       \/ /\ app.sock = "open"
          /\ app.packets_received < MaxThreadPackets
          /\ app' = [app EXCEPT !.packets_received = @ + 1,
                                !.loop_pc = "process"]
    /\ UNCHANGED <<sm, eng, adapter, db, rd, pure, now, calls, op, steps,
                   trace, before, lastStarted, notified, pauseRun, offHistory,
                   prevDamage, pushed>>

(* The rest of the try block for the datagram received, and the except     *)
(* clause when it raises                                                   *)
Loop_pass(Bodies(_)) ==
    /\ app.loop_pc = "process"
    /\ \E t \in {x \in AppTimestamps : x >= now} : \E r \in Bodies(t) :
            AppPass([r EXCEPT !.w.app.loop_pc =
                         IF r.raised THEN loop_handler("Exception")
                         ELSE "poll"], t)

Loop_process ==
    \/ Loop_pass(ThreadUndecoded)
    \/ Loop_pass(ThreadDecoded)

(* stop() up to the clearing of the flag                                   *)
Main_stop_begin ==
    /\ app.running
    /\ app.stop_pc = "none"
    /\ app' = [app EXCEPT !.running = FALSE, !.stop_pc = "close"]
    /\ op' = [name |-> "stop", rs |-> NoSnapshot]
    /\ UNCHANGED <<sm, eng, adapter, db, rd, pure, now, calls, steps, trace,
                   before, lastStarted, notified, pauseRun, offHistory, prevDamage,
                   pushed>>

(* stop(): the forced end of the session, sock.close() and db.close()      *)
Main_stop_close ==
    /\ app.stop_pc = "close"
    /\ \E r \in {stop_close(World(adapter, sm, eng, db, app))} :
        /\ adapter' = r.w.adapter
        /\ sm' = r.w.sm
        /\ eng' = r.w.eng
        /\ db' = r.w.db
        /\ app' = [r.w.app EXCEPT !.stop_pc = "exit"]
        /\ calls' = r.calls
        /\ op' = [name |-> "stop", rs |-> NoSnapshot]
        /\ before' = [sm |-> sm]
        /\ pauseRun' = None
        /\ notified' = NextNotified(r.calls, notified)
        /\ UNCHANGED <<rd, pure, now, steps, trace, lastStarted, offHistory,
                       prevDamage, pushed>>

(* stop(): sys.exit(0) ends the process and its daemon thread with it      *)
Main_stop_exit ==
    /\ app.stop_pc = "exit"
    /\ app' = [app EXCEPT !.exited = TRUE, !.stop_pc = "exited",
                          !.loop_pc = IF @ \in {"idle", "done"} THEN @
                                      ELSE "killed"]
    /\ UNCHANGED <<sm, eng, adapter, db, rd, pure, now, calls, op, steps,
                   trace, before, lastStarted, notified, pauseRun, offHistory,
                   prevDamage, pushed>>

NextThread ==
    \/ Main_start
    \/ Loop_poll
    \/ Loop_recvfrom
    \/ Loop_process
    \/ Main_stop_begin
    \/ Main_stop_close
    \/ Main_stop_exit

(* The thread of the loop is scheduled again and again and recvfrom        *)
(* returns or raises within its timeout; each of its steps moves loop_pc   *)
SpecThread ==
    /\ InitApp
    /\ [][NextThread]_vars
    /\ WF_app(Loop_poll)
    /\ WF_app(Loop_recvfrom)
    /\ WF_app(Loop_process)

----------------------------------------------------------------------------
(* stop() on the main thread against the packet thread inside _end_race:   *)
(* neither thread holds a lock, so the test of the tracker's state, the    *)
(* end callback and _reset of one thread interleave with the other's       *)

(* process_telemetry up to _end_race's duration test, for a snapshot that  *)
(* ends the Active session with a notification                             *)
Race_end_check ==
    /\ app.loop_pc = "process"
    /\ \E t \in {x \in AppTimestamps : x >= now} :
       \E rs \in ThreadSnapshots(t) :
        /\ ~should_start_race(sm, rs.session_type, rs.session_time,
                              Str(rs.session_uid))
        /\ should_end_race(sm, rs.session_type, Str(rs.session_uid),
                           rs.game_paused, rs.timestamp)
        /\ end_race(sm, Str(rs.session_uid), rs.session_time).calls # <<>>
        /\ app' = [app EXCEPT !.loop_pc = "end_callback"]
        /\ op' = [name |-> "end_race", rs |-> rs]
        /\ now' = t
    /\ UNCHANGED <<sm, eng, adapter, db, rd, calls, steps, trace, before,
                   lastStarted, notified, pauseRun, offHistory, prevDamage,
                   pushed, pure>>

(* _end_race: self.on_race_end(session_uid, 0.0); on a closed database the *)
(* callback raises and the loop's handler takes over                       *)
Race_end_callback ==
    /\ app.loop_pc = "end_callback"
    /\ calls' = <<EndCall(Str(op.rs.session_uid))>>
    /\ notified' = NextNotified(calls', notified)
    /\ IF db.closed
       THEN /\ app' = [app EXCEPT !.loop_pc = loop_handler("Exception")]
            /\ trace' = [decoded |-> TRUE, raised |-> TRUE,
                         engine_ran |-> FALSE, reset_ran |-> FALSE]
            /\ UNCHANGED <<db, eng>>
       ELSE \E w \in {on_race_end(World(adapter, sm, eng, db, app),
                                  Str(op.rs.session_uid))} :
            /\ db' = w.db
            /\ eng' = w.eng
            /\ app' = [w.app EXCEPT !.loop_pc = "end_reset"]
            /\ UNCHANGED trace
    /\ UNCHANGED <<sm, adapter, rd, now, op, steps, before, lastStarted,
                   pauseRun, offHistory, prevDamage, pushed, pure>>

(* _end_race: self._reset(), then the tail of process_telemetry; the       *)
(* tracker is not Active, so the engine is not run                         *)
Race_end_reset ==
    /\ app.loop_pc = "end_reset"
    /\ sm' = track_pause(reset(sm), op.rs)
    /\ before' = [sm |-> sm]
    /\ pauseRun' = None
    /\ app' = [app EXCEPT !.loop_pc = "poll"]
    /\ trace' = [decoded |-> TRUE, raised |-> FALSE, engine_ran |-> FALSE,
                 reset_ran |-> FALSE]
    /\ UNCHANGED <<eng, adapter, db, rd, now, calls, op, steps, lastStarted,
                   notified, offHistory, prevDamage, pushed, pure>>

(* stop(): is_race_active(), and the test force_end_current_session makes  *)
Race_force_check ==
    /\ app.stop_pc = "close"
    /\ app' = [app EXCEPT !.stop_pc =
                   IF is_race_active(sm) /\ sm.active_session_uid # None
                   THEN "force_call" ELSE "closing"]
    /\ UNCHANGED <<sm, eng, adapter, db, rd, now, calls, op, steps, trace,
                   before, lastStarted, notified, pauseRun, offHistory,
                   prevDamage, pushed, pure>>

(* force_end_current_session: self.on_race_end(self.active_session_uid,    *)
(* 0.0), the id being read now                                             *)
Race_force_callback ==
    /\ app.stop_pc = "force_call"
    /\ calls' = <<EndCall(sm.active_session_uid)>>
    /\ notified' = NextNotified(calls', notified)
    /\ \E w \in {on_race_end(World(adapter, sm, eng, db, app),
                              sm.active_session_uid)} :
        /\ db' = w.db
        /\ eng' = w.eng
        /\ app' = [w.app EXCEPT !.stop_pc = "force_reset"]
    /\ op' = [name |-> "force_end_current_session", rs |-> NoSnapshot]
    /\ UNCHANGED <<sm, adapter, rd, now, steps, trace, before, lastStarted,
                   pauseRun, offHistory, prevDamage, pushed, pure>>

(* force_end_current_session: self._reset()                                *)
Race_force_reset ==
    /\ app.stop_pc = "force_reset"
    /\ sm' = reset(sm)
    /\ before' = [sm |-> sm]
    /\ pauseRun' = None
    /\ app' = [app EXCEPT !.stop_pc = "closing"]
    /\ UNCHANGED <<eng, adapter, db, rd, now, calls, op, steps, trace,
                   lastStarted, notified, offHistory, prevDamage, pushed,
                   pure>>

(* stop(): sock.close() and db.close()                                     *)
Race_close ==
    /\ app.stop_pc = "closing"
    /\ app' = [app EXCEPT !.sock = "closed", !.stop_pc = "exit"]
    /\ db' = [db EXCEPT !.closed = TRUE]
    /\ UNCHANGED <<sm, eng, adapter, rd, now, calls, op, steps, trace,
                   before, lastStarted, notified, pauseRun, offHistory,
                   prevDamage, pushed, pure>>

NextRace ==
    \/ Main_start
    \/ Loop_poll
    \/ Loop_recvfrom
    \/ Loop_process
    \/ Race_end_check
    \/ Race_end_callback
    \/ Race_end_reset
    \/ Main_stop_begin
    \/ Race_force_check
    \/ Race_force_callback
    \/ Race_force_reset
    \/ Race_close
    \/ Main_stop_exit

SpecRace == InitApp /\ [][NextRace]_vars

----------------------------------------------------------------------------
(* One decoder instance given datagram after datagram                      *)

MAX_DATAGRAM == 2048

ShortBuffers ==
    { Datagram(len, id, 1, 1, 0, <<>>) :
        len \in {0, 1, HEADER_SIZE - 1},
        id \in {PACKET_ID_SESSION, PACKET_ID_LAP_DATA, PACKET_ID_CAR_DAMAGE} }

UnknownKinds ==
    { Datagram(len, id, 1, 1, 0, <<>>) :
        len \in {HEADER_SIZE, SESSION_PACKET_SIZE, MAX_DATAGRAM},
        id \in {0, 3, 10, 255} }

SessionBuffers ==
    { Datagram(len, PACKET_ID_SESSION, u, 61, 0,
               [session_type |-> ty, track_id |-> tr, game_paused |-> p]) :
        len \in {SESSION_PACKET_SIZE - 1, SESSION_PACKET_SIZE,
                 SESSION_PACKET_SIZE + 1, MAX_DATAGRAM},
        u \in SessionUids, ty \in SessionTypes, tr \in {-1, 3},
        p \in {0, 1, 2} }

(* The records of the cars up to the player's: the other car's is fixed    *)
CarsUpTo(player, own, other) == [i \in 1..(player + 1) |->
                                   IF i = player + 1 THEN own ELSE other]

LapBuffers ==
    { Datagram(HEADER_SIZE + LAP_DATA_SIZE * (player + 1) - short,
               PACKET_ID_LAP_DATA, 1, 62, player,
               CarsUpTo(player,
                        [current_lap_num |-> lap, current_lap_invalid |-> inv],
                        [current_lap_num |-> 9, current_lap_invalid |-> 0])) :
        player \in {0, 1}, short \in {0, 1}, lap \in {0, 3},
        inv \in {0, 1, 2} }

DamageBuffers ==
    { Datagram(HEADER_SIZE + CAR_DAMAGE_SIZE * (player + 1) - short,
               PACKET_ID_CAR_DAMAGE, 1, 63, player,
               CarsUpTo(player,
                        [front_left_wing |-> fl, front_right_wing |-> fr,
                         rear_wing |-> rw],
                        [front_left_wing |-> 50, front_right_wing |-> 50,
                         rear_wing |-> 50])) :
        player \in {0, 1}, short \in {0, 1}, fl \in {0, 6}, fr \in {0, 2},
        rw \in {0, 3} }

DecodeDatagrams ==
    ShortBuffers \cup UnknownKinds \cup SessionBuffers \cup LapBuffers
        \cup DamageBuffers

InitDecode ==
    /\ TrackerInit
    /\ EngineInit(DEFAULT_SR_MULTIPLIER)
    /\ AppInit(100 * SR_SCALE, {})
    /\ rd = ReaderIdle
    /\ pure = NoCall
    /\ now = 0

F12019Adapter_parse_packet ==
    \E data \in DecodeDatagrams :
        \E p \in {parse_packet(adapter, data, now)} :
            /\ adapter' = p.adapter
            /\ pure' = [fn |-> "parse_packet", args |-> <<data>>,
                        result |-> Some([result |-> p.result, rs |-> p.rs])]
            /\ op' = [name |-> "parse_packet", rs |-> p.rs]
            /\ UNCHANGED <<sm, eng, db, app, rd, now, calls, steps, trace,
                           before, lastStarted, notified, pauseRun, offHistory,
                           prevDamage, pushed>>

NextDecode == F12019Adapter_parse_packet

SpecDecode == InitDecode /\ [][NextDecode]_vars

----------------------------------------------------------------------------
(* The boundary bonus of one recomputation, for every pair of an old       *)
(* rating and a clamped new rating over a grid around the class boundaries *)
(* and the ends of the scale                                               *)

BonusRatings ==
    { Hundredths(h) : h \in {250, 251, 289, 290, 299, 300, 301, 339, 340,
                              341, 399, 400, 699, 700, 739, 759, 760, 798,
                              799} }

(* Everything but the call under examination is as constructed             *)
InitPure(firstCalls) ==
    /\ TrackerInit
    /\ EngineInit(DEFAULT_SR_MULTIPLIER)
    /\ AppInit(100 * SR_SCALE, {})
    /\ rd = ReaderIdle
    /\ now = 0
    /\ pure \in firstCalls

Return(value) ==
    /\ pure.result = None
    /\ pure' = [pure EXCEPT !.result = Some(value)]
    /\ UNCHANGED <<sm, eng, adapter, db, app, rd, now, calls, op, steps, trace,
                   before, lastStarted, notified, pauseRun, offHistory, prevDamage,
                   pushed>>

InitBonus ==
    InitPure({ [fn |-> "apply_boundary_bonus", args |-> <<old_sr, new_sr>>,
                result |-> None] :
                 old_sr \in BonusRatings, new_sr \in BonusRatings })

SREngine_apply_boundary_bonus ==
    /\ pure.fn = "apply_boundary_bonus"
    /\ Return(apply_boundary_bonus(pure.args[1], pure.args[2]))

NextBonus == SREngine_apply_boundary_bonus

SpecBonus == InitBonus /\ [][NextBonus]_vars

----------------------------------------------------------------------------
(* set_sr on a fresh engine, for every value of the 0-100 scale in steps   *)
(* of 1.25                                                                 *)

LegacyGrid == 0..80

InitImport ==
    InitPure({ [fn |-> "set_sr", args |-> <<q>>, result |-> None] :
                 q \in LegacyGrid })

SREngine_import ==
    /\ pure.fn = "set_sr"
    /\ pure.result = None
    /\ eng' = set_sr(eng, pure.args[1] * LEGACY_STEP)
    /\ pure' = [pure EXCEPT !.result = Some(eng'.current_sr)]
    /\ op' = [name |-> "set_sr", rs |-> NoSnapshot]
    /\ calls' = <<>>
    /\ UNCHANGED <<steps, offHistory, pushed, prevDamage, before, trackerVars,
                   appVars, rd>>

NextImport == SREngine_import

SpecImport == InitImport /\ [][NextImport]_vars

----------------------------------------------------------------------------
(* get_license_class called between clean snapshots that move the rating   *)

LicenseRatings ==
    { Hundredths(h) : h \in {0, 250, 299, 300, 399, 400, 499, 500, 599, 600,
                              699, 700, 799, 10000} }

LicenseArgs == {None} \cup { Some(r) : r \in LicenseRatings }

SREngine_process_license ==
    /\ EngineProcess(CleanSnapshots, MaxCleanSteps)
    /\ pure' = NoCall
    /\ UNCHANGED <<prevDamage, rd>>

SREngine_get_license_class ==
    \E sr \in LicenseArgs :
        /\ pure' = [fn |-> "get_license_class", args |-> <<sr>>,
                    result |-> Some(get_license_class_opt(eng, sr))]
        /\ op' = [name |-> "get_license_class", rs |-> NoSnapshot]
        /\ calls' = <<>>
        /\ UNCHANGED <<eng, steps, offHistory, pushed, prevDamage, before,
                       trackerVars, appVars, rd>>

NextLicense ==
    \/ SREngine_process_license
    \/ SREngine_get_license_class

SpecLicense == InitClean /\ [][NextLicense]_vars

----------------------------------------------------------------------------
(* calculate_cpi called between snapshots that raise the session counters  *)

MaxCpiSteps == 3

CpiSnapshots ==
    { RaceState(1, RACE_SESSION_TYPE, 1, FALSE, 3, 0, off,
                d[1], d[2], d[3], d[4], 0) :
        off \in BOOLEAN, d \in DamageVecs }

CornerTotals == {0, 1, 10, 20, 90}

InitCpi ==
    /\ TrackerInit
    /\ EngineInit(DEFAULT_SR_MULTIPLIER)
    /\ AppInit(100 * SR_SCALE, {})
    /\ rd = ReaderIdle
    /\ pure = NoCall
    /\ now = 0

SREngine_process_cpi ==
    /\ EngineProcess(CpiSnapshots, MaxCpiSteps)
    /\ pure' = NoCall
    /\ UNCHANGED <<prevDamage, rd>>

SREngine_calculate_cpi ==
    \E total_corners \in CornerTotals :
        /\ pure' = [fn |-> "calculate_cpi", args |-> <<total_corners>>,
                    result |-> Some(calculate_cpi(eng, total_corners))]
        /\ op' = [name |-> "calculate_cpi", rs |-> NoSnapshot]
        /\ calls' = <<>>
        /\ UNCHANGED <<eng, steps, offHistory, pushed, prevDamage, before,
                       trackerVars, appVars, rd>>

NextCpi ==
    \/ SREngine_process_cpi
    \/ SREngine_calculate_cpi

SpecCpi == InitCpi /\ [][NextCpi]_vars

----------------------------------------------------------------------------
(* Properties of the tracker                                               *)

Cleared(m) ==
    /\ m.current_state = IDLE
    /\ m.active_session_uid = None
    /\ m.active_track_id = None
    /\ m.race_start_time = None
    /\ m.pause_start_time = None

(* The three end conditions, for the Active tracker m, the previous        *)
(* snapshot prev and the incoming snapshot rs.                             *)
TypeChangedAway(prev, rs) ==
    rs.session_type # RACE_SESSION_TYPE /\ prev.session_type = RACE_SESSION_TYPE

UidDiffers(m, rs) == Str(rs.session_uid) # m.active_session_uid

PausedTooLong(m, rs) ==
    /\ rs.game_paused
    /\ m.pause_start_time # None
    /\ rs.timestamp - Val(m.pause_start_time) > PAUSE_THRESHOLD

EndCondition(m, prev, rs) ==
    TypeChangedAway(prev, rs) \/ UidDiffers(m, rs) \/ PausedTooLong(m, rs)

(* C1: an Idle tracker given a snapshot with the race session type and     *)
(* session time > 0 becomes Active for the snapshot's session id and track *)
(* id and calls on_race_start exactly once with them; given any other      *)
(* snapshot it stays Idle and calls nothing.                               *)
C1_IdleStartsOnRaceSnapshot ==
    [][(op'.name = "process_telemetry" /\ sm.current_state = IDLE) =>
        LET rs == op'.rs IN
        IF rs.session_type = RACE_SESSION_TYPE /\ rs.session_time > 0
        THEN /\ sm'.current_state = RACE_ACTIVE
             /\ sm'.active_session_uid = Str(rs.session_uid)
             /\ sm'.active_track_id = Some(rs.track_id)
             /\ calls' = <<StartCall(Str(rs.session_uid), rs.track_id)>>
        ELSE /\ sm'.current_state = IDLE
             /\ calls' = <<>>]_vars

C1_Witness ==
    /\ op.name = "process_telemetry"
    /\ before.sm.current_state = IDLE
    /\ sm.current_state = RACE_ACTIVE
    /\ calls = <<StartCall(Str(op.rs.session_uid), op.rs.track_id)>>

(* C2: an Active tracker returns to Idle on a snapshot exactly when one of *)
(* the three end conditions holds; otherwise it stays Active with the same *)
(* session id, track id and start time.                                    *)
C2_ActiveEndsOnEndCondition ==
    [][(op'.name = "process_telemetry" /\ sm.current_state = RACE_ACTIVE) =>
        IF EndCondition(sm, op.rs, op'.rs)
        THEN sm'.current_state = IDLE
        ELSE /\ sm'.current_state = RACE_ACTIVE
             /\ sm'.active_session_uid = sm.active_session_uid
             /\ sm'.active_track_id = sm.active_track_id
             /\ sm'.race_start_time = sm.race_start_time]_vars

C2_Witness ==
    /\ op.name = "process_telemetry"
    /\ before.sm.current_state = RACE_ACTIVE
    /\ sm.current_state = IDLE
    /\ op.rs.session_type # RACE_SESSION_TYPE
    /\ Str(op.rs.session_uid) = before.sm.active_session_uid
    /\ ~op.rs.game_paused

(* C3: every on_race_end call made by process_telemetry passes the id of   *)
(* the session that was Active, the id given to the most recent            *)
(* on_race_start call.                                                     *)
C3_EndCallbackPassesActiveId ==
    [][op'.name = "process_telemetry" =>
        \A i \in 1..Len(calls') :
            calls'[i].cb = "on_race_end" =>
                /\ calls'[i].uid = sm.active_session_uid
                /\ Some(calls'[i].uid) = lastStarted]_vars

(* C4: when an end condition fires, a session shorter than the minimum     *)
(* race duration is dropped without an on_race_end call, a session of at   *)
(* least the minimum gets exactly one; in both cases the record is cleared.*)
C4_ShortSessionDiscarded ==
    [][(/\ op'.name = "process_telemetry"
        /\ sm.current_state = RACE_ACTIVE
        /\ EndCondition(sm, op.rs, op'.rs)) =>
        LET duration == op'.rs.session_time - Val(sm.race_start_time) IN
        IF duration < MIN_RACE_DURATION
        THEN calls' = <<>> /\ Cleared(sm')
        ELSE /\ Len(calls') = 1
             /\ calls'[1].cb = "on_race_end"
             /\ Cleared(sm')]_vars

C4_Witness ==
    /\ op.name = "process_telemetry"
    /\ before.sm.current_state = RACE_ACTIVE
    /\ op.rs.session_time - Val(before.sm.race_start_time) < MIN_RACE_DURATION
    /\ Cleared(sm)
    /\ calls = <<>>

(* C5: an Active tracker given a paused snapshot of the race type and the  *)
(* active session id is Idle afterwards exactly when the snapshot's        *)
(* receipt timestamp exceeds that of the first snapshot of the current run *)
(* of paused snapshots by more than the pause threshold, whatever the      *)
(* snapshots' session_time values.                                         *)
C5_LongPauseEndsSession ==
    [][(/\ op'.name = "process_telemetry"
        /\ sm.current_state = RACE_ACTIVE
        /\ op'.rs.game_paused
        /\ op'.rs.session_type = RACE_SESSION_TYPE
        /\ Str(op'.rs.session_uid) = sm.active_session_uid) =>
        (sm'.current_state = IDLE <=>
            (/\ pauseRun # None
             /\ op'.rs.timestamp - Val(pauseRun) > PAUSE_THRESHOLD))]_vars

C5_Witness ==
    /\ op.name = "process_telemetry"
    /\ before.sm.current_state = RACE_ACTIVE
    /\ sm.current_state = IDLE
    /\ op.rs.game_paused
    /\ op.rs.session_type = RACE_SESSION_TYPE
    /\ Str(op.rs.session_uid) = before.sm.active_session_uid
    /\ op.rs.session_time = Val(before.sm.race_start_time)

(* C6: force_end_current_session on an Active tracker calls on_race_end    *)
(* exactly once with the active session id, with no duration check, and    *)
(* clears the record; on an Idle tracker it calls nothing and changes      *)
(* nothing.                                                                *)
C6_ForceEndNotifiesAndClears ==
    [][op'.name = "force_end_current_session" =>
        IF sm.current_state = RACE_ACTIVE
        THEN /\ calls' = <<EndCall(sm.active_session_uid)>>
             /\ Cleared(sm')
        ELSE /\ calls' = <<>>
             /\ sm' = sm]_vars

C6_Witness ==
    /\ op.name = "force_end_current_session"
    /\ before.sm.current_state = RACE_ACTIVE
    /\ calls = <<EndCall(before.sm.active_session_uid)>>
    /\ Cleared(sm)

----------------------------------------------------------------------------
(* Properties of the engine                                                *)

(* Number of false-to-true transitions in a sequence of off-track flags,   *)
(* the flag counting as false before the first.                            *)
RisingEdges(h) ==
    Cardinality({i \in 1..Len(h) : h[i] /\ (i = 1 \/ ~h[i - 1])})

LastFlag(h) == IF h = <<>> THEN FALSE ELSE h[Len(h)]

(* The accumulator after a snapshot: restarted from zero when the snapshot *)
(* completed a corner, plus 1 for an off-track incident and 4 for a        *)
(* collision.                                                              *)
AccumulatorAfter(e, eNext, offTrack, collision) ==
    (IF eNext.corners_completed > e.corners_completed
     THEN 0 ELSE e.current_corner_incidents)
    + (IF offTrack THEN 1 ELSE 0)
    + (IF collision THEN 4 ELSE 0)

(* C9: the 1x counter equals the number of false-to-true transitions of    *)
(* the off-track flag over the snapshots processed since the last session  *)
(* reset (the flag counting as false at reset), and each such transition   *)
(* adds weight 1 to the in-progress accumulator.                           *)
C9_OffTrackRisingEdges ==
    /\ [](eng.session_incidents["1x"] = RisingEdges(offHistory))
    /\ [][op'.name = "sr_process_telemetry" =>
            LET rising == op'.rs.is_off_track /\ ~LastFlag(offHistory)
                collision == eng'.session_incidents["4x"]
                                 > eng.session_incidents["4x"]
            IN  eng'.current_corner_incidents =
                    AccumulatorAfter(eng, eng', rising, collision)]_vars

C9_Witness ==
    /\ offHistory = <<TRUE, TRUE, FALSE, TRUE>>
    /\ eng.session_incidents["1x"] = 2

(* Sum over the four channels of max(0, current - previous)                *)
DamageIncrease(prev, rs) ==
    LET Up(c, p) == IF c > p THEN c - p ELSE 0
    IN  Up(rs.front_left_damage, prev.front_left)
        + Up(rs.front_right_damage, prev.front_right)
        + Up(rs.rear_left_damage, prev.rear_left)
        + Up(rs.rear_right_damage, prev.rear_right)

SnapshotDamage(rs) ==
    [front_left |-> rs.front_left_damage,
     front_right |-> rs.front_right_damage,
     rear_left |-> rs.rear_left_damage,
     rear_right |-> rs.rear_right_damage]

(* C10: a snapshot is flagged as one 4x incident, adding weight 4 to the   *)
(* accumulator, exactly when the summed per-channel damage increases       *)
(* exceed the threshold; decreases do not offset; the stored damage vector *)
(* is the snapshot's afterwards, flagged or not.                           *)
C10_CollisionOnDamageIncrease ==
    [][op'.name = "sr_process_telemetry" =>
        LET collision == DamageIncrease(eng.last_damage_values, op'.rs)
                             > DAMAGE_THRESHOLD
            rising == eng'.session_incidents["1x"]
                          > eng.session_incidents["1x"]
        IN  /\ eng'.session_incidents["4x"] =
                   eng.session_incidents["4x"] + (IF collision THEN 1 ELSE 0)
            /\ eng'.current_corner_incidents =
                   AccumulatorAfter(eng, eng', rising, collision)
            /\ eng'.last_damage_values = SnapshotDamage(op'.rs)]_vars

(* A hit of 3 + 3 on two channels together with a repair of 3 on another   *)
C10_Witness ==
    /\ op.name = "sr_process_telemetry"
    /\ prevDamage = [front_left |-> 3, front_right |-> 0,
                     rear_left |-> 0, rear_right |-> 0]
    /\ eng.last_damage_values = [front_left |-> 0, front_right |-> 3,
                                 rear_left |-> 3, rear_right |-> 0]
    /\ steps = 2
    /\ eng.session_incidents["4x"] = 1
    /\ eng.current_corner_incidents = 4

----------------------------------------------------------------------------
(* Properties of the application and of concurrent readers                 *)

(* C7: the statistics a reader obtains from get_stats are the statistics   *)
(* of the engine at one single point between two operations of the thread  *)
(* driving the engine.                                                     *)
C7_ReaderSeesOnePoint ==
    rd.pc = "done" => rd.stats \in rd.points

----------------------------------------------------------------------------
(* Properties of the engine: corners, window and rating                    *)

CornerCompleted(e, eNext) == eNext.corners_completed = e.corners_completed + 1

(* C11: a snapshot completes a corner exactly when its lap number is       *)
(* strictly greater than the last observed lap number and is > 0; a lap    *)
(* number equal to or lower than the last observed one completes none.     *)
C11_CornerOnLapIncrease ==
    [][op'.name = "sr_process_telemetry" =>
        (CornerCompleted(eng, eng') <=>
            (op'.rs.current_lap > eng.last_lap_number
             /\ op'.rs.current_lap > 0))]_vars

(* The last n entries of a sequence                                        *)
LastN(q, n) == SubSeq(q, Len(q) - n + 1, Len(q))

(* C12: after any sequence of process_telemetry, reset_session and set_sr  *)
(* calls the window holds at most window_size entries and is the most      *)
(* recent min(window_size, n) of the n accumulator totals pushed by the    *)
(* corner completions so far, in completion order; each completion adds    *)
(* one to corners_completed and restarts the accumulator from zero.        *)
C12_WindowHoldsLatestTotals ==
    /\ [](/\ Len(eng.corner_incidents) <= eng.window_size
          /\ eng.corner_incidents =
                 LastN(pushed, Min(eng.window_size, Len(pushed))))
    /\ [][Len(pushed') = Len(pushed) + 1 =>
            /\ eng'.corners_completed = eng.corners_completed + 1
            /\ eng'.current_corner_incidents =
                   (IF eng'.session_incidents["1x"]
                           > eng.session_incidents["1x"] THEN 1 ELSE 0)
                   + (IF eng'.session_incidents["4x"]
                             > eng.session_incidents["4x"] THEN 4 ELSE 0)]_vars

(* Three completions into a window of two: the first total is gone         *)
C12_Witness ==
    /\ pushed = <<0, 1, 4>>
    /\ eng.corner_incidents = <<1, 4>>
    /\ WindowSize = 2

C14_CleanCornersRaiseRating ==
    [][(/\ op'.name = "sr_process_telemetry"
        /\ eng'.corner_incidents # <<>>
        /\ Len(pushed') <= eng.window_size) =>
            /\ eng'.current_sr > eng.current_sr
            /\ eng'.current_sr <= MAX_SR]_vars

(* The integer boundaries of the scale                                     *)
Boundaries == { k * SR_SCALE : k \in 3..7 }

(* C15: in one recomputation the bonus is applied exactly when the integer *)
(* floor of the clamped new rating differs from that of the old one, once, *)
(* in the direction of travel, and the sum is clamped to [MIN, MAX] again; *)
(* with equal floors the new rating is returned as it is; after an upward  *)
(* crossing of a boundary k the result is strictly above k, after a        *)
(* downward crossing strictly below k.                                     *)
C15_BonusOnFloorCrossing ==
    (pure.fn = "apply_boundary_bonus" /\ pure.result # None) =>
        LET old_sr == pure.args[1]
            new_sr == pure.args[2]
            result == Val(pure.result)
            crossed == (old_sr \div SR_SCALE) # (new_sr \div SR_SCALE)
        IN  /\ ~crossed => result = new_sr
            /\ (crossed /\ new_sr > old_sr) =>
                   /\ result = Max(MIN_SR, Min(MAX_SR, new_sr + BOUNDARY_BONUS))
                   /\ \A k \in Boundaries :
                          (old_sr < k /\ k <= new_sr) => result > k
            /\ (crossed /\ new_sr < old_sr) =>
                   /\ result = Max(MIN_SR, Min(MAX_SR, new_sr - BOUNDARY_BONUS))
                   /\ \A k \in Boundaries :
                          (new_sr < k /\ k <= old_sr) => result < k

(* 3.01 falling to 2.99 is pushed down to 2.59                             *)
C15_Witness ==
    /\ pure.fn = "apply_boundary_bonus"
    /\ pure.args = <<Hundredths(301), Hundredths(299)>>
    /\ pure.result = Some(Hundredths(259))

(* C16: reset_session zeroes the three session counters, the corner count, *)
(* the accumulator and the last lap number, clears the last off-track      *)
(* flag, and leaves the rating, the window and the last damage vector as   *)
(* they were.                                                              *)
C16_ResetSessionFrame ==
    [][op'.name = "reset_session" =>
        /\ \A k \in IncidentTypes : eng'.session_incidents[k] = 0
        /\ eng'.corners_completed = 0
        /\ eng'.current_corner_incidents = 0
        /\ eng'.last_lap_number = 0
        /\ eng'.last_off_track_state = FALSE
        /\ eng'.current_sr = eng.current_sr
        /\ eng'.corner_incidents = eng.corner_incidents
        /\ eng'.last_damage_values = eng.last_damage_values]_vars

(* A reset after corners with incidents, a collision and a rating change   *)
C16_Witness ==
    /\ op.name = "reset_session"
    /\ Sum(pushed) > 0
    /\ eng.corner_incidents # <<>>
    /\ eng.current_sr > MIN_SR
    /\ eng.last_damage_values.rear_left = 6
    /\ eng.corners_completed = 0
    /\ \A k \in IncidentTypes : eng.session_incidents[k] = 0

StartNotified(cs) == \E i \in 1..Len(cs) : cs[i].cb = "on_race_start"

(* C17: every start notification the tracker issues makes the engine's     *)
(* session reset run before the engine is given the starting snapshot,     *)
(* whether start_session returned true or false.                           *)
C17_StartAlwaysResetsEngine ==
    [][(op'.name = "telemetry_loop" /\ StartNotified(calls')) =>
            (trace'.reset_ran /\ trace'.engine_ran)]_vars

(* C18: while the window is empty process_telemetry leaves the rating at   *)
(* the value it had before the call, so a rating adopted through set_sr    *)
(* stays the engine's rating until the first corner completes.             *)
C18_EmptyWindowKeepsRating ==
    [][(op'.name = "sr_process_telemetry" /\ eng'.corner_incidents = <<>>) =>
            eng'.current_sr = eng.current_sr]_vars

(* C19: for every legacy value v of the 0-100 scale the rating adopted by  *)
(* set_sr is MIN + (v / 100) * (MAX - MIN): 0 gives MIN, 100 gives MAX,    *)
(* 50 the midpoint, and the adopted rating never decreases as v grows.     *)
(* Here v = 1.25 * q for the q of the call.                                *)
C19_LegacyImportLinear ==
    (pure.fn = "set_sr" /\ pure.result # None) =>
        Val(pure.result) = MIN_SR + pure.args[1] * ((MAX_SR - MIN_SR) \div 80)

TotalIncidents(e) ==
    e.session_incidents["1x"] + e.session_incidents["2x"]
    + e.session_incidents["4x"]

Abs(x) == IF x < 0 THEN -x ELSE x

(* C20, as the code has it: calculate_cpi(total_corners) returns the       *)
(* quotient total_corners / total session incidents rounded to two         *)
(* decimals (a hundredth at most 0.005 away from the quotient) when the    *)
(* total is > 0, so 90 corners and 3 incidents give 30.0 and 10 corners    *)
(* and 3 incidents give 3.33; it returns the infinite sentinel when the    *)
(* total is 0, and it changes no engine state.                             *)
C20_CpiRoundedQuotient ==
    /\ [](pure.fn = "calculate_cpi" =>
            LET t == TotalIncidents(eng)
                c == pure.args[1]
                r == Val(pure.result)
            IN  /\ t = 0 => r.inf
                /\ t > 0 =>
                       /\ ~r.inf
                       /\ 2 * Abs(r.hundredths * t - 100 * c) <= t
                /\ (t = 3 /\ c = 90) => r.hundredths = 3000)
    /\ [][op'.name = "calculate_cpi" => eng' = eng]_vars

(* C20 as stated: the value returned is the quotient itself                *)
C20_CpiExactQuotient ==
    (pure.fn = "calculate_cpi" /\ TotalIncidents(eng) > 0) =>
        /\ ~Val(pure.result).inf
        /\ Val(pure.result).hundredths * TotalIncidents(eng)
               = 100 * pure.args[1]

(* 10 corners over 3 incidents: 3.33 is returned                           *)
C20_Witness ==
    /\ pure.fn = "calculate_cpi"
    /\ pure.args = <<10>>
    /\ TotalIncidents(eng) = 3
    /\ pure.result = Some(FiniteCpi(333))

----------------------------------------------------------------------------
(* Properties of the license class, the decoder and the receive loop      *)

(* The class table of the rating scale: lower bound, name and color        *)
LicenseTable ==
    << <<300, "D", "#FF0000">>, <<400, "C", "#FFAA00">>,
       <<500, "B", "#00AA00">>, <<600, "A", "#0066FF">>,
       <<700, "SS", "#FFD700">> >>

(* The number of lower bounds of the table that r has reached              *)
TierOf(r) == Cardinality({ i \in 1..Len(LicenseTable) :
                              r >= Hundredths(LicenseTable[i][1]) })

(* C21: get_license_class(r) depends on r alone and changes no engine      *)
(* state: Rookie below 3, D from 3, C from 4, B from 5, A from 6 and SS    *)
(* from 7, each with its fixed color, whatever calls came before.          *)
C21_LicenseClassOfRatingAlone ==
    /\ []((pure.fn = "get_license_class" /\ pure.args[1] # None) =>
            LET r == Val(pure.args[1])
                k == TierOf(r)
            IN  Val(pure.result) =
                    IF k = 0 THEN <<"Rookie", "#888888">>
                    ELSE <<LicenseTable[k][2], LicenseTable[k][3]>>)
    /\ [][op'.name = "get_license_class" => eng' = eng]_vars

(* Exactly 7.00 asked of an engine whose own rating has moved off 2.50     *)
C21_Witness ==
    /\ pure.fn = "get_license_class"
    /\ pure.args = <<Some(Hundredths(700))>>
    /\ pure.result = Some(<<"SS", "#FFD700">>)
    /\ eng.current_sr > MIN_SR
    /\ eng.current_sr < Hundredths(700)

(* The buffers parse_packet is to turn down                                *)
Rejected(data) ==
    \/ data.len < 24
    \/ data.packet_id \notin {1, 2, 6}
    \/ data.packet_id = 1 /\ data.len < 240
    \/ data.packet_id = 2 /\ data.len < 24 + (data.player_car_index + 1) * 41
    \/ data.packet_id = 6 /\ data.len < 24 + (data.player_car_index + 1) * 39

(* C22: parse_packet returns None, raises nothing and leaves the decoder's *)
(* held snapshot as it was for a buffer under 24 bytes, a packet kind      *)
(* other than 1, 2 and 6, a kind-1 buffer under 240 bytes, and a kind-2 or *)
(* kind-6 buffer that ends before the player's record does.                *)
C22_MalformedGivesNone ==
    /\ []((pure.fn = "parse_packet" /\ Rejected(pure.args[1])) =>
            Val(pure.result).result = "none")
    /\ [][(pure'.fn = "parse_packet" /\ pure' # pure
           /\ Rejected(pure'.args[1])) => adapter' = adapter]_vars

(* A session packet one byte short of 240                                  *)
C22_Witness ==
    /\ pure.fn = "parse_packet"
    /\ pure.args[1].packet_id = 1
    /\ pure.args[1].len = 239
    /\ pure.result = Some([result |-> "none", rs |-> NoSnapshot])

WellFormed(data) ==
    /\ data.packet_id \in {1, 2, 6}
    /\ ~Rejected(data)

PlayerRecord(data) == data.payload[data.player_car_index + 1]

(* C23: for a kind-1 datagram of 240 bytes or more parse_packet returns a  *)
(* snapshot with the header's session id and session time, the session    *)
(* type and track id of the payload, and the paused flag set as the pause  *)
(* byte is.                                                                *)
C23_SessionPacketDecoded ==
    (pure.fn = "parse_packet" /\ pure.args[1].packet_id = 1
     /\ WellFormed(pure.args[1])) =>
        LET data == pure.args[1]
            r == Val(pure.result)
        IN  /\ r.result = "state"
            /\ r.rs.session_uid = data.session_uid
            /\ r.rs.session_time = data.session_time
            /\ r.rs.session_type = data.payload.session_type
            /\ r.rs.track_id = data.payload.track_id
            /\ data.payload.game_paused = 0 => ~r.rs.game_paused
            /\ data.payload.game_paused = 1 => r.rs.game_paused

(* C24: for a well-formed kind-2 datagram parse_packet returns a snapshot  *)
(* whose current_lap is the lap number of the player's record and whose    *)
(* is_off_track is true exactly when the record's lap-invalid byte is not  *)
(* zero.                                                                   *)
C24_LapPacketDecoded ==
    (pure.fn = "parse_packet" /\ pure.args[1].packet_id = 2
     /\ WellFormed(pure.args[1])) =>
        LET data == pure.args[1]
            r == Val(pure.result)
        IN  /\ r.result = "state"
            /\ r.rs.current_lap = PlayerRecord(data).current_lap_num
            /\ r.rs.is_off_track <=>
                   (PlayerRecord(data).current_lap_invalid # 0)

(* C25: for a well-formed kind-6 datagram parse_packet returns a snapshot  *)
(* whose front damages are the front wing bytes of the player's record and *)
(* whose two rear damages are its rear wing byte.                          *)
C25_DamagePacketDecoded ==
    (pure.fn = "parse_packet" /\ pure.args[1].packet_id = 6
     /\ WellFormed(pure.args[1])) =>
        LET data == pure.args[1]
            r == Val(pure.result)
        IN  /\ r.result = "state"
            /\ r.rs.front_left_damage = PlayerRecord(data).front_left_wing
            /\ r.rs.front_right_damage = PlayerRecord(data).front_right_wing
            /\ r.rs.rear_left_damage = PlayerRecord(data).rear_wing
            /\ r.rs.rear_right_damage = PlayerRecord(data).rear_wing

(* C26: the snapshot returned for a packet keeps the fields its kind does  *)
(* not own as the latest owning packet set them; so the snapshot of a      *)
(* well-formed kind-2 or kind-6 packet that follows a well-formed kind-1   *)
(* packet has that packet's session type and track id, and its own         *)
(* session id and session time.                                            *)
C26_SnapshotsMerge ==
    [][(/\ pure.fn = "parse_packet" /\ pure'.fn = "parse_packet"
        /\ pure.args[1].packet_id = 1 /\ WellFormed(pure.args[1])
        /\ pure'.args[1].packet_id \in {2, 6} /\ WellFormed(pure'.args[1]))
       =>
        /\ Val(pure'.result).result = "state"
        /\ Val(pure'.result).rs.session_type
               = pure.args[1].payload.session_type
        /\ Val(pure'.result).rs.track_id = pure.args[1].payload.track_id
        /\ Val(pure'.result).rs.session_uid = pure'.args[1].session_uid
        /\ Val(pure'.result).rs.session_time
               = pure'.args[1].session_time]_vars

(* C29: after a process_telemetry call that leaves the tracker Active the  *)
(* pause timestamp is absent when the snapshot was unpaused, and otherwise *)
(* is the receipt timestamp of the first snapshot of the run of paused     *)
(* snapshots the session is in, so that pauses an unpaused snapshot        *)
(* separates never add up; an Idle tracker has no pause timestamp.         *)
C29_PauseTimestampIsRunStart ==
    /\ sm.current_state = IDLE => sm.pause_start_time = None
    /\ (op.name = "process_telemetry" /\ sm.current_state = RACE_ACTIVE) =>
           /\ ~op.rs.game_paused => sm.pause_start_time = None
           /\ op.rs.game_paused =>
                  /\ pauseRun # None
                  /\ sm.pause_start_time = pauseRun

(* The second snapshot of a pause: the timestamp is still the first's      *)
C29_Witness ==
    /\ op.name = "process_telemetry"
    /\ sm.current_state = RACE_ACTIVE
    /\ op.rs.game_paused
    /\ op.rs.timestamp = 31
    /\ sm.pause_start_time = Some(30)
    /\ before.sm.current_state = RACE_ACTIVE
    /\ before.sm.pause_start_time = Some(30)

(* C30: between tracker operations the state is IDLE or RACE_ACTIVE, and   *)
(* the tracker is IDLE exactly when the active session id is absent,       *)
(* exactly when the active track id is absent and exactly when the         *)
(* session time at start is absent.                                        *)
C30_IdleIffNoSession ==
    /\ sm.current_state \in {IDLE, RACE_ACTIVE}
    /\ sm.current_state = IDLE <=> sm.active_session_uid = None
    /\ sm.current_state = IDLE <=> sm.active_track_id = None
    /\ sm.current_state = IDLE <=> sm.race_start_time = None

(* A session that ended: the three fields set at its start are gone        *)
C30_Witness ==
    /\ before.sm.current_state = RACE_ACTIVE
    /\ before.sm.active_session_uid # None
    /\ before.sm.active_track_id # None
    /\ before.sm.race_start_time # None
    /\ sm.current_state = IDLE
    /\ sm.active_session_uid = None
    /\ sm.active_track_id = None
    /\ sm.race_start_time = None

(* C27: an exception raised while a datagram is decoded, the session check *)
(* and its callbacks run or the rating is updated is caught within that    *)
(* pass of the loop: the thread is back at the loop's condition, and from  *)
(* there it goes on to receive as long as the running flag is set.         *)
C27_ExceptionsStayInThePass ==
    /\ [][(app.loop_pc = "process" /\ app'.loop_pc # "process"
           /\ ~app'.exited /\ trace'.raised) => app'.loop_pc = "poll"]_vars
    /\ [][(app.loop_pc = "poll" /\ app'.loop_pc # "poll" /\ ~app'.exited
           /\ app.running) => app'.loop_pc = "recv"]_vars

(* The rating update raised on a decoded snapshot of an active race, and   *)
(* the thread is receiving again                                           *)
C27_Witness ==
    /\ trace.decoded
    /\ trace.raised
    /\ sm.current_state = RACE_ACTIVE
    /\ app.running
    /\ app.loop_pc = "recv"

(* C28: once stop() has cleared the running flag the loop's thread comes   *)
(* to its end; the flag is read before every receive, and a thread that    *)
(* has left the loop takes up no further datagram.                         *)
C28_LoopExitsAfterStop ==
    /\ (app.stop_pc # "none") ~> (app.loop_pc \in {"done", "killed"})
    /\ [][app'.loop_pc = "recv" /\ app.loop_pc # "recv" =>
              app.loop_pc = "poll" /\ app.running]_vars
    /\ [][app.loop_pc = "done" =>
              /\ app'.loop_pc = "done"
              /\ app'.packets_received = app.packets_received]_vars

(* The loop saw the cleared flag and left before the process was exited    *)
C28_Witness ==
    /\ app.stop_pc = "close"
    /\ app.loop_pc = "done"
    /\ ~app.exited
    /\ app.packets_received > 0

----------------------------------------------------------------------------
(* Properties of the notifications, the application's engine and the       *)
(* statistics                                                              *)

EndCalls(cbs) == { i \in 1..Len(cbs) : cbs[i] = "on_race_end" }

(* C31: over any sequence of process_telemetry and force_end calls an end  *)
(* notification comes only after a start notification with no other end   *)
(* notification between the two, so the end notifications never outnumber  *)
(* the start notifications.                                                *)
C31_EndsFollowStarts ==
    /\ notified.surplus >= 0
    /\ EndCalls(notified.since_start) \subseteq {2}
    /\ notified.since_start # <<>> =>
           notified.since_start[1] = "on_race_start"

(* A session was started and, a minute of session time later, ended by a   *)
(* snapshot                                                                *)
C31_Witness ==
    /\ notified.since_start = <<"on_race_start", "on_race_end">>
    /\ op.name = "process_telemetry"
    /\ calls # <<>>
    /\ calls[1].cb = "on_race_end"

(* C32: once a session has ended, by whichever end condition, a later      *)
(* snapshot carrying the same session id does not start it again: a start  *)
(* callback never gets the id the start callback before it was given.      *)
C32_StartOncePerSessionId ==
    [][\A i \in 1..Len(calls') :
           calls'[i].cb = "on_race_start" =>
               Some(calls'[i].uid) # lastStarted]_vars

(* C33: a snapshot given to the Active tracker starts no session; when its *)
(* session id is not the active one the tracker is Idle afterwards, and a  *)
(* start notification is issued only to an Idle tracker by a snapshot that *)
(* meets the start conditions.                                             *)
C33_EndingSnapshotStartsNothing ==
    [][op'.name = "process_telemetry" =>
         /\ is_race_active(sm) => ~StartNotified(calls')
         /\ (is_race_active(sm) /\ UidDiffers(sm, op'.rs)) =>
                sm'.current_state = IDLE
         /\ StartNotified(calls') =>
                /\ sm.current_state = IDLE
                /\ op'.rs.session_type = RACE_SESSION_TYPE
                /\ op'.rs.session_time > 0]_vars

(* The Active session was ended by a race snapshot of another session that *)
(* has begun, and the tracker is Idle                                      *)
C33_Witness ==
    /\ op.name = "process_telemetry"
    /\ is_race_active(before.sm)
    /\ UidDiffers(before.sm, op.rs)
    /\ op.rs.session_type = RACE_SESSION_TYPE
    /\ op.rs.session_time > 0
    /\ calls = <<EndCall(Str(op.rs.session_uid))>>
    /\ sm.current_state = IDLE

(* C34: with stop() on the main thread and the packet thread inside a      *)
(* snapshot that ends the Active session, the end callback is invoked at   *)
(* most once for the session, however force_end_current_session and        *)
(* _end_race interleave.                                                   *)
C34_OneEndCallbackUnderStop ==
    Cardinality(EndCalls(notified.since_start)) <= 1

(* The integer boundaries the last recomputation took the rating across,   *)
(* upward: there is one only when the bonus was received                   *)
CrossedUpward(e) ==
    { k \in 0..(sr_floor(MAX_SR) + 1) :
        e.last_sr < k * SR_SCALE /\ k * SR_SCALE <= e.current_sr }

(* C35: for the engine the application constructs (rate constant 10.0),    *)
(* when a recomputation has crossed an integer boundary k upward with the  *)
(* bonus, the recomputation after it leaves the rating at k or above.      *)
C35_BonusHoldsForOneRecomputation ==
    [][(/\ eng.sr_multiplier = APP_SR_MULTIPLIER
        /\ op.name = "sr_process_telemetry"
        /\ op'.name = "sr_process_telemetry"
        /\ steps' = steps + 1) =>
           \A k \in CrossedUpward(eng) : eng'.current_sr >= k * SR_SCALE]_vars

(* The accumulator totals pushed to the window since the last session      *)
(* reset: corners_completed counts them                                    *)
PushedSinceReset == LastN(pushed, eng.corners_completed)

(* C36: between process_telemetry calls, incidents_1x + 4 * incidents_4x   *)
(* is the accumulator in progress plus the totals pushed to the window     *)
(* since the last reset_session, and incidents_2x is 0.                    *)
C36_SessionCountsMatchWeights ==
    /\ eng.corners_completed <= Len(pushed)
    /\ eng.session_incidents["1x"] + 4 * eng.session_incidents["4x"]
           = eng.current_corner_incidents + Sum(PushedSinceReset)
    /\ eng.session_incidents["2x"] = 0

(* After a reset, an off-track and a collision were pushed with a corner   *)
C36_Witness ==
    /\ Len(pushed) > eng.corners_completed
    /\ Sum(PushedSinceReset) > 0
    /\ eng.session_incidents["1x"] > 0
    /\ eng.session_incidents["4x"] > 0
    /\ op.name = "sr_process_telemetry"

(* C37: a snapshot that completes a corner pushes the accumulator as it    *)
(* stood before the snapshot; the weight of the incidents detected in that *)
(* snapshot is the whole of the new accumulator.                           *)
C37_CornerBeforeIncidents ==
    [][(op'.name = "sr_process_telemetry" /\ CornerCompleted(eng, eng')) =>
         LET detected == (eng'.session_incidents["1x"]
                              - eng.session_incidents["1x"])
                         + 4 * (eng'.session_incidents["4x"]
                                    - eng.session_incidents["4x"])
             window == eng'.corner_incidents
         IN  /\ window # <<>>
             /\ window[Len(window)] = eng.current_corner_incidents
             /\ eng'.current_corner_incidents = detected]_vars

(* An off-track on lap 0, then a snapshot of lap 1 with a collision: the   *)
(* entry pushed is 1 and the new accumulator 4                             *)
C37_Witness ==
    /\ op.name = "sr_process_telemetry"
    /\ steps = 2
    /\ op.rs.current_lap = 1
    /\ eng.corners_completed = 1
    /\ eng.corner_incidents = <<1>>
    /\ eng.current_corner_incidents = 4

(* C38: on a fresh engine or after reset_session, the first snapshot with  *)
(* a lap number of 1 or more completes a corner: the weight accumulated so *)
(* far in the session is pushed to the window as one entry and             *)
(* corners_completed becomes 1.                                            *)
C38_FirstLapSnapshotCompletesCorner ==
    /\ [](eng.corners_completed = 0 => eng.last_lap_number = 0)
    /\ [][(/\ op'.name = "sr_process_telemetry"
           /\ eng.corners_completed = 0
           /\ op'.rs.current_lap >= 1) =>
              LET window == eng'.corner_incidents
              IN  /\ eng'.corners_completed = 1
                  /\ Len(window) = Min(Len(eng.corner_incidents) + 1,
                                       eng.window_size)
                  /\ window[Len(window)] = eng.current_corner_incidents
                  /\ \A i \in 1..(Len(window) - 1) :
                         window[i] = eng.corner_incidents[
                                         Len(eng.corner_incidents)
                                             - (Len(window) - 1) + i]]_vars

(* After a reset that followed a corner of the session before, an          *)
(* off-track on lap 0 and then the first snapshot of lap 1                 *)
C38_Witness ==
    /\ op.name = "sr_process_telemetry"
    /\ op.rs.current_lap = 1
    /\ eng.corners_completed = 1
    /\ Len(pushed) = 2
    /\ eng.corner_incidents = <<0, 1>>
    /\ eng.session_incidents["1x"] = 1

(* C39: the license class and colour get_stats reports are those the tier  *)
(* mapping gives for the current_sr it reports, the rating rounded to two  *)
(* decimals.                                                               *)
C39_StatsTierOfReportedRating ==
    LET s == get_stats(eng)
    IN  <<s.license_class, s.license_color>>
            = get_license_class(Hundredths(s.current_sr))

====
